---------------------------- MODULE Spec2Model ----------------------------
(***************************************************************************)
(* A model of the aili5 pipeline engine: tool-name generation and          *)
(* resolution (lib/tools.ts), the pipeline executor (lib/executor.ts), and *)
(* the builder's run-inference handler together with the genie hooks       *)
(* (PipelineBuilder.tsx, usePipelineState.ts, useGenieState.ts).           *)
(*                                                                         *)
(* Strings the code inspects character by character (tool names, custom    *)
(* names) are sequences of one-character strings; strings the code only    *)
(* stores or compares are TLA+ strings.                                    *)
(***************************************************************************)
EXTENDS Integers, Sequences, FiniteSets, TLC

VARIABLES
  \* --- tool-name functions applied to one (node kind, custom name) input
  nmKind, nmCustom, nmPc, nmSanitized, nmResanitized, nmToolName, nmParsed,
  nmEmitted,
  \* --- tool resolver applied to one pipeline and index
  rsNodes, rsIndex, rsResult,
  \* --- executePipeline: the pipeline, the next node, the context, the
  \*     last request handed to the model and the content of its last reply
  exNodes, exInputs, exPc, exStatus, context, request, exResponse,
  \* --- builder state (usePipelineState, PipelineBuilder, useGenieState)
  nodes, outputs, userInputs, genieConversations, genieBackstoryUpdates,
  loadingNodeId, calls, timers, lastEvent,
  \* --- usePipelineDragDrop: the counter of generateNodeId
  nodeIdCounter,
  \* --- buildSystemPrompt applied to one input, and the prompt it returned
  bpInput, bpResult

nmVars == <<nmKind, nmCustom, nmPc, nmSanitized, nmResanitized, nmToolName,
            nmParsed, nmEmitted>>
rsVars == <<rsNodes, rsIndex, rsResult>>
exVars == <<exNodes, exInputs, exPc, exStatus, context, request, exResponse>>
uiVars == <<nodes, outputs, userInputs, genieConversations,
            genieBackstoryUpdates, loadingNodeId, calls, timers, lastEvent>>
ddVars == <<nodeIdCounter>>
bpVars == <<bpInput, bpResult>>
vars == <<nmVars, rsVars, exVars, uiVars, ddVars, bpVars>>

----------------------------------------------------------------------------
(* Characters and string helpers                                           *)

Letters ==
  {"a", "b", "c", "d", "e", "f", "g", "h", "i", "j", "k", "l", "m", "n", "o",
   "p", "q", "r", "s", "t", "u", "v", "w", "x", "y", "z", "A", "B", "Z"}
Digits == {"0", "1", "2", "3", "4", "5", "6", "7", "8", "9"}

\* the character class [a-zA-Z0-9_-]
ValidChars == Letters \cup Digits \cup {"_", "-"}

\* the length limit of TOOL_NAME_PATTERN, and of both truncations
MaxToolNameLen == 128

StartsWith(s, p) == Len(s) >= Len(p) /\ SubSeq(s, 1, Len(p)) = p
EndsWith(s, p) ==
  Len(s) >= Len(p) /\ SubSeq(s, Len(s) - Len(p) + 1, Len(s)) = p

\* s.replace(/[^a-zA-Z0-9_-]/g, "_")
ReplaceInvalid(s) ==
  [i \in 1..Len(s) |-> IF s[i] \in ValidChars THEN s[i] ELSE "_"]

\* s.replace(/_+/g, "_"): of every run of underscores the first is kept
CollapseUnderscores(s) ==
  LET Kept(i) == ~(s[i] = "_" /\ i > 1 /\ s[i - 1] = "_")
      kept == SelectSeq([i \in 1..Len(s) |-> i], Kept)
  IN [j \in 1..Len(kept) |-> s[kept[j]]]

\* s.replace(/^_+|_+$/g, "")
TrimUnderscores(s) ==
  LET solid == {i \in 1..Len(s) : s[i] # "_"}
  IN IF solid = {} THEN <<>>
     ELSE LET lo == CHOOSE i \in solid : \A j \in solid : i <= j
              hi == CHOOSE i \in solid : \A j \in solid : i >= j
          IN SubSeq(s, lo, hi)

\* s.substring(0, 128) when s is longer than 128
Truncate(s) ==
  IF Len(s) > MaxToolNameLen THEN SubSeq(s, 1, MaxToolNameLen) ELSE s

\* TOOL_NAME_PATTERN.test(s): ^[a-zA-Z0-9_-]{1,128}$
MatchesToolNamePattern(s) ==
  /\ Len(s) >= 1
  /\ Len(s) <= MaxToolNameLen
  /\ \A i \in 1..Len(s) : s[i] \in ValidChars

\* s.split("_")
RECURSIVE SplitUnderscore(_)
SplitUnderscore(s) ==
  LET us == {i \in 1..Len(s) : s[i] = "_"}
  IN IF us = {} THEN <<s>>
     ELSE LET k == CHOOSE i \in us : \A j \in us : i <= j
          IN <<SubSeq(s, 1, k - 1)>> \o SplitUnderscore(SubSeq(s, k + 1, Len(s)))

\* parts.join("_")
RECURSIVE JoinUnderscore(_)
JoinUnderscore(parts) ==
  IF Len(parts) = 0 THEN <<>>
  ELSE IF Len(parts) = 1 THEN parts[1]
  ELSE parts[1] \o <<"_">> \o JoinUnderscore(Tail(parts))

----------------------------------------------------------------------------
(* lib/tools.ts: names                                                     *)

StrCustom == <<"c", "u", "s", "t", "o", "m">>
StrTool == <<"t", "o", "o", "l">>
StrGenie == <<"g", "e", "n", "i", "e">>
StrSendMessageTo ==
  <<"s", "e", "n", "d", "_", "m", "e", "s", "s", "a", "g", "e", "_", "t",
    "o", "_">>

\* TOOL_TEMPLATES[outputType].baseToolName, in the object's key order
OutputTypes ==
  <<"color", "icon", "emoji", "gauge", "pixel_art", "webhook", "survey">>

baseToolName(outputType) ==
  CASE outputType = "color" ->
         <<"d", "i", "s", "p", "l", "a", "y", "_", "c", "o", "l", "o", "r">>
    [] outputType = "icon" ->
         <<"d", "i", "s", "p", "l", "a", "y", "_", "i", "c", "o", "n">>
    [] outputType = "emoji" ->
         <<"d", "i", "s", "p", "l", "a", "y", "_", "e", "m", "o", "j", "i">>
    [] outputType = "gauge" ->
         <<"d", "i", "s", "p", "l", "a", "y", "_", "g", "a", "u", "g", "e">>
    [] outputType = "pixel_art" ->
         <<"g", "e", "n", "e", "r", "a", "t", "e", "_", "p", "i", "x", "e",
           "l", "_", "a", "r", "t">>
    [] outputType = "webhook" ->
         <<"t", "r", "i", "g", "g", "e", "r", "_", "w", "e", "b", "h", "o",
           "o", "k">>
    [] outputType = "survey" ->
         <<"a", "s", "k", "_", "s", "u", "r", "v", "e", "y">>

\* NODE_TYPE_TO_OUTPUT_TYPE; "none" where the node type has no entry
NodeTypeToOutputType(nodeType) ==
  CASE nodeType = "color_display" -> "color"
    [] nodeType = "icon_display" -> "icon"
    [] nodeType = "emoji_display" -> "emoji"
    [] nodeType = "gauge_display" -> "gauge"
    [] nodeType = "pixel_art_display" -> "pixel_art"
    [] nodeType = "webhook_trigger" -> "webhook"
    [] nodeType = "survey" -> "survey"
    [] OTHER -> "none"

OutputNodeTypes ==
  {"color_display", "icon_display", "emoji_display", "gauge_display",
   "pixel_art_display", "webhook_trigger", "survey"}

sanitizeCustomName(name) ==
  LET trimmed == TrimUnderscores(CollapseUnderscores(ReplaceInvalid(name)))
      nonEmpty == IF trimmed = <<>> THEN StrCustom ELSE trimmed
  IN Truncate(nonEmpty)

\* a slip the final re-validation would have to catch: no truncation
validateAndSanitizeToolName_NoTruncate(toolName) ==
  IF MatchesToolNamePattern(toolName) THEN toolName
  ELSE LET trimmed ==
             TrimUnderscores(CollapseUnderscores(ReplaceInvalid(toolName)))
       IN IF trimmed = <<>> THEN StrTool ELSE trimmed

validateAndSanitizeToolName(toolName) ==
  IF MatchesToolNamePattern(toolName) THEN toolName
  ELSE LET trimmed ==
             TrimUnderscores(CollapseUnderscores(ReplaceInvalid(toolName)))
           nonEmpty == IF trimmed = <<>> THEN StrTool ELSE trimmed
           sanitized == Truncate(nonEmpty)
       IN IF MatchesToolNamePattern(sanitized) THEN sanitized ELSE StrTool

\* a slip: the custom name appended instead of spliced in after the first part
generateToolName_Append(base, customName) ==
  LET validatedBase == validateAndSanitizeToolName(base)
  IN IF customName = <<>> THEN validatedBase
     ELSE validateAndSanitizeToolName(
            validatedBase \o <<"_">> \o sanitizeCustomName(customName))

\* customName = <<>> stands for both undefined and "" (both falsy)
generateToolName(base, customName) ==
  LET validatedBase == validateAndSanitizeToolName(base)
  IN IF customName = <<>> THEN validatedBase
     ELSE LET sanitizedCustomName == sanitizeCustomName(customName)
              parts == SplitUnderscore(validatedBase)
              toolName ==
                IF Len(parts) >= 2
                THEN parts[1] \o <<"_">> \o sanitizedCustomName \o <<"_">>
                       \o JoinUnderscore(Tail(parts))
                ELSE validatedBase \o <<"_">> \o sanitizedCustomName
          IN validateAndSanitizeToolName(toolName)

\* the result of parseToolName: null, or {outputType, customName?} with
\* customName = <<>> for an absent custom name
NullParse == [outputType |-> "null", customName |-> <<>>]

RECURSIVE parseTemplates(_, _)
parseTemplates(toolName, k) ==
  IF k > Len(OutputTypes) THEN NullParse
  ELSE LET baseName == baseToolName(OutputTypes[k])
           parts == SplitUnderscore(baseName)
           prefix == parts[1] \o <<"_">>
           suffix == <<"_">> \o JoinUnderscore(Tail(parts))
           \* toolName.slice(prefix.length, -suffix.length)
           customName ==
             IF Len(toolName) - Len(suffix) > Len(prefix)
             THEN SubSeq(toolName, Len(prefix) + 1, Len(toolName) - Len(suffix))
             ELSE <<>>
       IN IF toolName = baseName
          THEN [outputType |-> OutputTypes[k], customName |-> <<>>]
          ELSE IF /\ Len(parts) >= 2
                  /\ StartsWith(toolName, prefix)
                  /\ EndsWith(toolName, suffix)
                  /\ customName # <<>>
          THEN [outputType |-> OutputTypes[k], customName |-> customName]
          ELSE parseTemplates(toolName, k + 1)

isGenieMessageTool(toolName) ==
  toolName = StrSendMessageTo \o StrGenie \/ StartsWith(toolName, StrSendMessageTo)

parseToolName(toolName) ==
  IF isGenieMessageTool(toolName) THEN NullParse
  ELSE parseTemplates(toolName, 1)

\* node.config.name; <<>> when the config has no name
getCustomName(node) == node.config.name

\* the name of the tool getToolForNode builds; <<>> for null (no tool)
getToolForNode(node) ==
  IF NodeTypeToOutputType(node.type) = "none" THEN <<>>
  ELSE generateToolName(baseToolName(NodeTypeToOutputType(node.type)),
                        getCustomName(node))

\* the name of the tool getGenieTool builds; <<>> for null (no tool)
getGenieTool(node) ==
  IF node.type # "genie" THEN <<>>
  ELSE LET genieName == IF node.config.name = <<>> THEN StrGenie
                        ELSE node.config.name
           sanitizedGenieName == sanitizeCustomName(genieName)
           toolName == IF sanitizedGenieName = StrGenie
                       THEN StrSendMessageTo \o StrGenie
                       ELSE StrSendMessageTo \o sanitizedGenieName
       IN validateAndSanitizeToolName(toolName)

----------------------------------------------------------------------------
(* The name functions applied to one input: a node kind and the custom     *)
(* name (or genie name) its configuration holds.                           *)

\* bounds of the inputs tried
MaxNameLen == 3
MaxSuffixLen == 2

NameAlphabet == {"a", "_", "-", " "}

SeqsUpTo(S, n) == UNION {[1..k -> S] : k \in 0..n}

Pad(n) == [i \in 1..n |-> "a"]

NameKinds == OutputNodeTypes \cup {"genie"}

\* the characters the tool name of this kind adds around the custom name
FixedLen(kind) ==
  IF kind = "genie" THEN Len(StrSendMessageTo)
  ELSE Len(baseToolName(NodeTypeToOutputType(kind))) + 1

\* lengths around both truncation limits: of the custom name alone, and of
\* the tool name built around it
PadLens(kind) ==
  {MaxToolNameLen + d : d \in -2..1}
    \cup {MaxToolNameLen - FixedLen(kind) + d : d \in -2..1}

NameInputs(kind) ==
  SeqsUpTo(NameAlphabet, MaxNameLen)
    \cup {Pad(n) \o s : n \in PadLens(kind),
                        s \in SeqsUpTo(NameAlphabet, MaxSuffixLen)}

NmNode == [type |-> nmKind, config |-> [name |-> nmCustom]]

NmInit ==
  /\ nmKind \in NameKinds
  /\ nmCustom \in NameInputs(nmKind)
  /\ nmPc = "start"
  /\ nmSanitized = <<>>
  /\ nmResanitized = <<>>
  /\ nmToolName = <<>>
  /\ nmParsed = NullParse
  /\ nmEmitted = <<>>

NmIdle ==
  /\ nmKind = "genie"
  /\ nmCustom = <<>>
  /\ nmPc = "idle"
  /\ nmSanitized = <<>>
  /\ nmResanitized = <<>>
  /\ nmToolName = <<>>
  /\ nmParsed = NullParse
  /\ nmEmitted = <<>>

Sanitize ==
  /\ nmPc = "start"
  /\ nmSanitized' = sanitizeCustomName(nmCustom)
  /\ nmPc' = "sanitized"
  /\ UNCHANGED <<nmKind, nmCustom, nmResanitized, nmToolName, nmParsed,
                 nmEmitted>>
  /\ UNCHANGED <<rsVars, exVars, uiVars, ddVars, bpVars>>

SanitizeAgain ==
  /\ nmPc = "sanitized"
  /\ nmResanitized' = sanitizeCustomName(nmSanitized)
  /\ nmPc' = "resanitized"
  /\ UNCHANGED <<nmKind, nmCustom, nmSanitized, nmToolName, nmParsed,
                 nmEmitted>>
  /\ UNCHANGED <<rsVars, exVars, uiVars, ddVars, bpVars>>

Generate ==
  /\ nmPc = "resanitized"
  /\ nmKind \in OutputNodeTypes
  /\ nmToolName' =
       generateToolName(baseToolName(NodeTypeToOutputType(nmKind)), nmCustom)
  /\ nmPc' = "generated"
  /\ UNCHANGED <<nmKind, nmCustom, nmSanitized, nmResanitized, nmParsed,
                 nmEmitted>>
  /\ UNCHANGED <<rsVars, exVars, uiVars, ddVars, bpVars>>

Parse ==
  /\ nmPc = "generated"
  /\ nmParsed' = parseToolName(nmToolName)
  /\ nmPc' = "parsed"
  /\ UNCHANGED <<nmKind, nmCustom, nmSanitized, nmResanitized, nmToolName,
                 nmEmitted>>
  /\ UNCHANGED <<rsVars, exVars, uiVars, ddVars, bpVars>>

EmitTool ==
  /\ nmPc = "parsed"
  /\ nmEmitted' = getToolForNode(NmNode)
  /\ nmPc' = "emitted"
  /\ UNCHANGED <<nmKind, nmCustom, nmSanitized, nmResanitized, nmToolName,
                 nmParsed>>
  /\ UNCHANGED <<rsVars, exVars, uiVars, ddVars, bpVars>>

EmitGenieTool ==
  /\ nmPc = "resanitized"
  /\ nmKind = "genie"
  /\ nmEmitted' = getGenieTool(NmNode)
  /\ nmPc' = "emitted"
  /\ UNCHANGED <<nmKind, nmCustom, nmSanitized, nmResanitized, nmToolName,
                 nmParsed>>
  /\ UNCHANGED <<rsVars, exVars, uiVars, ddVars, bpVars>>

NmNext ==
  \/ Sanitize
  \/ SanitizeAgain
  \/ Generate
  \/ Parse
  \/ EmitTool
  \/ EmitGenieTool

----------------------------------------------------------------------------
(* lib/tools.ts: the resolver                                              *)

\* a JavaScript object used as a map: a function whose domain is its keys
EmptyMap == [k \in {} |-> k]
\* a slip: the entry is stored without the entries there were
MapPut_Only(m, k, v) == [x \in {k} |-> v]

MapPut(m, k, v) == [x \in DOMAIN m \cup {k} |-> IF x = k THEN v ELSE m[x]]
MapDelete(m, k) == [x \in DOMAIN m \ {k} |-> m[x]]

EmptyTools == [tools |-> <<>>, nodeIdByToolName |-> EmptyMap]

\* a slip: a tool name that has an owner keeps it
ScanNode_FirstOwner(node, acc) ==
  LET Own(owners, tool) ==
        IF tool \in DOMAIN owners THEN owners ELSE MapPut(owners, tool, node.id)
      tool == getToolForNode(node)
      withTool ==
        IF tool # <<>>
        THEN [tools |-> Append(acc.tools, tool),
              nodeIdByToolName |-> Own(acc.nodeIdByToolName, tool)]
        ELSE acc
      genieTool == getGenieTool(node)
  IN IF genieTool # <<>>
     THEN [tools |-> Append(withTool.tools, genieTool),
           nodeIdByToolName |-> Own(withTool.nodeIdByToolName, genieTool)]
     ELSE withTool

\* what one iteration of the scan adds for nodes[i] (i counts from 0)
ScanNode(node, acc) ==
  LET tool == getToolForNode(node)
      withTool ==
        IF tool # <<>>
        THEN [tools |-> Append(acc.tools, tool),
              nodeIdByToolName |-> MapPut(acc.nodeIdByToolName, tool, node.id)]
        ELSE acc
      genieTool == getGenieTool(node)
  IN IF genieTool # <<>>
     THEN [tools |-> Append(withTool.tools, genieTool),
           nodeIdByToolName |->
             MapPut(withTool.nodeIdByToolName, genieTool, node.id)]
     ELSE withTool

\* a slip: the scan does not stop at the previous inference node
RECURSIVE ScanBack_NoBreak(_, _, _)
ScanBack_NoBreak(ns, i, acc) ==
  IF i < 0 THEN acc
  ELSE ScanBack_NoBreak(ns, i - 1, ScanNode(ns[i + 1], acc))

\* for (let i = currentNodeIndex - 1; i >= 0; i--), from i on
RECURSIVE ScanBack(_, _, _)
ScanBack(ns, i, acc) ==
  IF i < 0 THEN acc
  ELSE IF ns[i + 1].type = "inference" THEN acc
  ELSE ScanBack(ns, i - 1, ScanNode(ns[i + 1], acc))

getToolsFromPrecedingNodes(ns, currentNodeIndex) ==
  ScanBack(ns, currentNodeIndex - 1, EmptyTools)

----------------------------------------------------------------------------
(* The resolver applied to one pipeline and one index.                     *)

\* bound: the longest pipeline tried
MaxResNodes == 4

StrMood == <<"m", "o", "o", "d">>

ResNodeId(k) ==
  CASE k = 1 -> "n1" [] k = 2 -> "n2" [] k = 3 -> "n3" [] k = 4 -> "n4"
    [] OTHER -> "n5"

\* the node kinds and names tried at each position
ResNodeShapes ==
  {[type |-> "inference", name |-> <<>>],
   [type |-> "color_display", name |-> <<>>],
   [type |-> "color_display", name |-> StrMood],
   [type |-> "genie", name |-> <<>>],
   [type |-> "text_input", name |-> <<>>]}

ResPipelines ==
  UNION {{[k \in 1..n |->
            [id |-> ResNodeId(k), type |-> shape[k].type,
             config |-> [name |-> shape[k].name]]] :
          shape \in [1..n -> ResNodeShapes]} : n \in 0..MaxResNodes}

RsInit ==
  /\ rsNodes \in ResPipelines
  /\ rsIndex \in 0..Len(rsNodes)
  /\ rsResult = EmptyTools

RsIdle ==
  /\ rsNodes = <<>>
  /\ rsIndex = 0
  /\ rsResult = EmptyTools

Resolve ==
  /\ rsResult' = getToolsFromPrecedingNodes(rsNodes, rsIndex)
  /\ UNCHANGED <<rsNodes, rsIndex>>
  /\ UNCHANGED <<nmVars, exVars, uiVars, ddVars, bpVars>>

----------------------------------------------------------------------------
(* lib/executor.ts                                                         *)
(* A message is [role, content, toolCalls]; content is a sequence of text  *)
(* fragments, so that concatenation is \o. The context's urlContext and    *)
(* metadata are never written after creation and are left out.             *)

Msg(role, content) == [role |-> role, content |-> content, toolCalls |-> <<>>]

\* createInitialContext / the context executePipeline starts from
InitialContext == [messages |-> <<>>, latestOutputs |-> <<>>]

NoRequest ==
  [messages |-> <<>>, system |-> <<>>, apiMessages |-> <<>>, tools |-> <<>>,
   sent |-> FALSE]

\* the indices of the messages with this role
IndicesWithRole(messages, role) ==
  {i \in 1..Len(messages) : messages[i].role = role}
MinOf(S) == CHOOSE i \in S : \A j \in S : i <= j
MaxOf(S) == CHOOSE i \in S : \A j \in S : i >= j

\* a slip: the new system message is added and the old one is kept
processSystemPrompt_Keeps(config, ctx) ==
  [ctx EXCEPT !.messages = <<Msg("system", config.prompt)>> \o ctx.messages]

processSystemPrompt(config, ctx) ==
  LET NotSystem(m) == m.role # "system"
  IN [ctx EXCEPT !.messages =
        <<Msg("system", config.prompt)>> \o SelectSeq(ctx.messages, NotSystem)]

processUserInput(config, ctx, userInput) ==
  LET content == IF userInput # <<>> THEN userInput ELSE config.defaultValue
  IN IF content = <<>> THEN ctx
     ELSE [ctx EXCEPT !.messages = Append(ctx.messages, Msg("user", content))]

\* a slip: find without the reverse, which picks the first user message
freshMessages_First(messages) ==
  LET users == IndicesWithRole(messages, "user")
  IN IF users = {} THEN <<>> ELSE <<messages[MinOf(users)]>>

\* [...context.messages].reverse().find((m) => m.role === "user")
freshMessages(messages) ==
  LET users == IndicesWithRole(messages, "user")
  IN IF users = {} THEN <<>> ELSE <<messages[MaxOf(users)]>>

\* the optional system prompt override of processInference
withSystemOverride(messages, systemPrompt) ==
  IF systemPrompt = <<>> THEN messages
  ELSE LET systems == IndicesWithRole(messages, "system")
       IN IF systems # {}
          THEN [messages EXCEPT ![MinOf(systems)].content =
                  messages[MinOf(systems)].content \o <<"\n\n">> \o systemPrompt]
          ELSE <<Msg("system", systemPrompt)>> \o messages

\* the messages processInference hands to callLLM
inferenceMessages(config, ctx) ==
  withSystemOverride(
    IF config.contextMode = "fresh" THEN freshMessages(ctx.messages)
    ELSE ctx.messages,
    config.systemPrompt)

\* for (let i = currentNodeIndex + 1; ...), from i on (i counts from 0)
RECURSIVE ScanForward(_, _, _)
ScanForward(ns, i, tools) ==
  IF i >= Len(ns) THEN tools
  ELSE IF ns[i + 1].type = "inference" THEN tools
  ELSE ScanForward(ns, i + 1,
         IF ns[i + 1].type \in OutputNodeTypes /\ getToolForNode(ns[i + 1]) # <<>>
         THEN Append(tools, getToolForNode(ns[i + 1])) ELSE tools)

getEnabledTools(ns, currentNodeIndex) ==
  ScanForward(ns, currentNodeIndex + 1, <<>>)

\* what callLLM sends: the system message's content, the other messages
callLLM(messages, tools) ==
  LET systems == IndicesWithRole(messages, "system")
      NotSystem(m) == m.role # "system"
  IN [messages |-> messages,
      system |-> IF systems = {} THEN <<>> ELSE messages[MinOf(systems)].content,
      apiMessages |->
        [i \in 1..Len(SelectSeq(messages, NotSystem)) |->
           [role |-> SelectSeq(messages, NotSystem)[i].role,
            content |-> SelectSeq(messages, NotSystem)[i].content]],
      tools |-> tools,
      sent |-> TRUE]

RECURSIVE extractToolCalls(_)
extractToolCalls(content) ==
  IF content = <<>> THEN <<>>
  ELSE LET block == Head(content)
           parsed == parseToolName(block.name)
       IN IF block.type = "tool_use" /\ parsed # NullParse
          THEN <<[type |-> parsed.outputType, toolName |-> block.name,
                  data |-> block.input]>> \o extractToolCalls(Tail(content))
          ELSE extractToolCalls(Tail(content))

RECURSIVE extractTextContent(_)
extractTextContent(content) ==
  IF content = <<>> THEN <<>>
  ELSE (IF Head(content).type = "text" THEN Head(content).text ELSE <<>>)
         \o extractTextContent(Tail(content))

\* a slip: the reply is appended to the messages sent, not to the context's
processInference_ToSent(config, ctx, reply) ==
  LET toolCalls == extractToolCalls(reply)
      assistantMessage ==
        [role |-> "assistant", content |-> extractTextContent(reply),
         toolCalls |-> toolCalls]
  IN [messages |-> Append(inferenceMessages(config, ctx), assistantMessage),
      latestOutputs |-> toolCalls]

\* a slip: the new batch is merged into the old one
processInference_Merges(config, ctx, reply) ==
  LET toolCalls == extractToolCalls(reply)
      assistantMessage ==
        [role |-> "assistant", content |-> extractTextContent(reply),
         toolCalls |-> toolCalls]
  IN [messages |-> Append(ctx.messages, assistantMessage),
      latestOutputs |-> ctx.latestOutputs \o toolCalls]

\* the context processInference returns for the model's reply
processInference(config, ctx, reply) ==
  LET toolCalls == extractToolCalls(reply)
      assistantMessage ==
        [role |-> "assistant", content |-> extractTextContent(reply),
         toolCalls |-> toolCalls]
  IN [messages |-> Append(ctx.messages, assistantMessage),
      latestOutputs |-> toolCalls]

----------------------------------------------------------------------------
(* executePipeline on one pipeline: one step per node, in order.           *)

\* bound: the longest pipeline executed
MaxExNodes == 3

ExNodeId(k) ==
  CASE k = 1 -> "e1" [] k = 2 -> "e2" [] k = 3 -> "e3" [] OTHER -> "e4"

ExConfig(prompt, contextMode, systemPrompt) ==
  [prompt |-> prompt, defaultValue |-> <<>>, contextMode |-> contextMode,
   systemPrompt |-> systemPrompt, name |-> <<>>]

\* the node kinds, configurations and user inputs tried at each position
ExNodeShapes ==
  {[type |-> "system_prompt", config |-> ExConfig(<<"p1">>, "continue", <<>>),
    input |-> <<>>],
   [type |-> "system_prompt", config |-> ExConfig(<<"p2">>, "continue", <<>>),
    input |-> <<>>],
   [type |-> "user_input", config |-> ExConfig(<<>>, "continue", <<>>),
    input |-> <<"u1">>],
   [type |-> "user_input", config |-> ExConfig(<<>>, "continue", <<>>),
    input |-> <<"u2">>],
   [type |-> "inference", config |-> ExConfig(<<>>, "continue", <<"ov">>),
    input |-> <<>>],
   [type |-> "inference", config |-> ExConfig(<<>>, "fresh", <<>>),
    input |-> <<>>],
   [type |-> "inference", config |-> ExConfig(<<>>, "fresh", <<"ov">>),
    input |-> <<>>],
   [type |-> "color_display", config |-> ExConfig(<<>>, "continue", <<>>),
    input |-> <<>>]}

TextBlock(text) ==
  [type |-> "text", text |-> text, name |-> <<>>, input |-> "none"]
ToolUseBlock(name, input) ==
  [type |-> "tool_use", text |-> <<>>, name |-> name, input |-> input]

\* the content blocks of the replies tried
ExReplies ==
  {<<>>,
   <<TextBlock(<<"t1">>)>>,
   <<TextBlock(<<"t1">>), ToolUseBlock(baseToolName("color"), "#3498DB")>>,
   <<ToolUseBlock(generateToolName(baseToolName("icon"), StrMood), "sun"),
     TextBlock(<<"t2">>)>>,
   <<ToolUseBlock(<<"x">>, "none")>>}

ExInit ==
  /\ \E n \in 0..MaxExNodes : \E shape \in [1..n -> ExNodeShapes] :
       /\ exNodes = [k \in 1..n |->
                       [id |-> ExNodeId(k), type |-> shape[k].type,
                        config |-> shape[k].config]]
       /\ exInputs = [k \in 1..n |-> shape[k].input]
  /\ exPc = 0
  /\ exStatus = "running"
  /\ context = InitialContext
  /\ request = NoRequest
  /\ exResponse = <<>>

ExIdle ==
  /\ exNodes = <<>>
  /\ exInputs = <<>>
  /\ exPc = 0
  /\ exStatus = "idle"
  /\ context = InitialContext
  /\ request = NoRequest
  /\ exResponse = <<>>

\* the node the loop of executePipeline is at (exPc counts from 0)
ExAtNode(types) ==
  /\ exStatus = "running"
  /\ exPc < Len(exNodes)
  /\ exNodes[exPc + 1].type \in types

ExNode == exNodes[exPc + 1]

ProcessSystemPromptNode ==
  /\ ExAtNode({"system_prompt"})
  /\ context' = processSystemPrompt(ExNode.config, context)
  /\ exPc' = exPc + 1
  /\ UNCHANGED <<exNodes, exInputs, exStatus, request, exResponse>>
  /\ UNCHANGED <<nmVars, rsVars, uiVars, ddVars, bpVars>>

ProcessUserInputNode ==
  /\ ExAtNode({"user_input"})
  /\ context' = processUserInput(ExNode.config, context, exInputs[exPc + 1])
  /\ exPc' = exPc + 1
  /\ UNCHANGED <<exNodes, exInputs, exStatus, request, exResponse>>
  /\ UNCHANGED <<nmVars, rsVars, uiVars, ddVars, bpVars>>

ProcessInferenceNode ==
  /\ ExAtNode({"inference"})
  /\ \E reply \in ExReplies :
       /\ context' = processInference(ExNode.config, context, reply)
       /\ exResponse' = reply
  /\ request' = callLLM(inferenceMessages(ExNode.config, context),
                        getEnabledTools(exNodes, exPc))
  /\ exPc' = exPc + 1
  /\ UNCHANGED <<exNodes, exInputs, exStatus>>
  /\ UNCHANGED <<nmVars, rsVars, uiVars, ddVars, bpVars>>

\* client.messages.create rejects: the await in processInference throws,
\* and so do processNode and executePipeline
ProcessInferenceThrows ==
  /\ ExAtNode({"inference"})
  /\ request' = callLLM(inferenceMessages(ExNode.config, context),
                        getEnabledTools(exNodes, exPc))
  /\ exStatus' = "rejected"
  /\ UNCHANGED <<exNodes, exInputs, exPc, context, exResponse>>
  /\ UNCHANGED <<nmVars, rsVars, uiVars, ddVars, bpVars>>

\* output nodes and unknown node types return the context as it is
ProcessOtherNode ==
  /\ ExAtNode(OutputNodeTypes \cup {"text_display"})
  /\ exPc' = exPc + 1
  /\ UNCHANGED <<exNodes, exInputs, exStatus, context, request, exResponse>>
  /\ UNCHANGED <<nmVars, rsVars, uiVars, ddVars, bpVars>>

ExecutePipelineReturns ==
  /\ exStatus = "running"
  /\ exPc = Len(exNodes)
  /\ exStatus' = "done"
  /\ UNCHANGED <<exNodes, exInputs, exPc, context, request, exResponse>>
  /\ UNCHANGED <<nmVars, rsVars, uiVars, ddVars, bpVars>>

ExNext ==
  \/ ProcessSystemPromptNode
  \/ ProcessUserInputNode
  \/ ProcessInferenceNode
  \/ ProcessInferenceThrows
  \/ ProcessOtherNode
  \/ ExecutePipelineReturns

----------------------------------------------------------------------------
(* The builder: node parsers and the tool router                           *)
(* A tool call is [toolName, input]; an input is a record of the fields    *)
(* the parsers read. A field the reply leaves out is "undefined" (a        *)
(* string field) or Undefined (an object or array field).                  *)

Undefined == [t |-> "undefined"]
Object == [t |-> "object"]
Array(rows) == [t |-> "array", rows |-> rows]

NoInput ==
  [hex |-> "undefined", name |-> "undefined", explanation |-> "undefined",
   colors |-> Undefined, grid |-> Undefined,
   backstory |-> "undefined", shouldAutoRespond |-> FALSE]

ToolCall(toolName, input) == [toolName |-> toolName, input |-> input]

\* the tool names of the calls
ToolNamesOf(toolCalls) == {toolCalls[i].toolName : i \in 1..Len(toolCalls)}

\* toolCalls.find(pred): the first call whose name is one of those the
\* predicate accepts (named), or Undefined
FindCall(toolCalls, named) ==
  LET hits == {i \in 1..Len(toolCalls) : toolCalls[i].toolName \in named}
  IN IF hits = {} THEN Undefined ELSE toolCalls[MinOf(hits)]

StrDisplay == <<"d", "i", "s", "p", "l", "a", "y", "_">>
StrGenerate == <<"g", "e", "n", "e", "r", "a", "t", "e", "_">>
StrUColor == <<"_", "c", "o", "l", "o", "r">>
StrUPixelArt == <<"_", "p", "i", "x", "e", "l", "_", "a", "r", "t">>

\* ColorDisplayNodeInterface.parse
ColorParse(response) ==
  LET IsColorTool(n) ==
        (StartsWith(n, StrDisplay) /\ EndsWith(n, StrUColor))
          \/ n = baseToolName("color")
      colorToolCall ==
        FindCall(response.toolCalls,
                 {n \in ToolNamesOf(response.toolCalls) : IsColorTool(n)})
  IN IF colorToolCall # Undefined
     THEN [hex |-> colorToolCall.input.hex, name |-> colorToolCall.input.name,
           explanation |-> colorToolCall.input.explanation]
     ELSE Undefined

\* PixelArtDisplayNodeInterface.parse
PixelArtParse(response) ==
  LET IsPixelArtTool(n) ==
        (StartsWith(n, StrGenerate) /\ EndsWith(n, StrUPixelArt))
          \/ n = baseToolName("pixel_art")
      pixelArtToolCall ==
        FindCall(response.toolCalls,
                 {n \in ToolNamesOf(response.toolCalls) : IsPixelArtTool(n)})
      colors == pixelArtToolCall.input.colors
      grid == pixelArtToolCall.input.grid
  IN IF /\ pixelArtToolCall # Undefined
        /\ colors # Undefined
        /\ grid # Undefined
        /\ grid.t = "array"
        /\ Len(grid.rows) > 0
     THEN [colors |-> colors, grid |-> grid.rows,
           width |-> Len(grid.rows[1]), height |-> Len(grid.rows),
           explanation |-> pixelArtToolCall.input.explanation]
     ELSE Undefined

\* The genie block's parse is not among the sources. From the design: the
\* update payload is the input of the reply's call of the genie message
\* tool; it carries the new backstory and whether a response is wanted.
GenieParse(response) ==
  LET genieToolCall ==
        FindCall(response.toolCalls,
                 {n \in ToolNamesOf(response.toolCalls) : isGenieMessageTool(n)})
  IN IF genieToolCall # Undefined
     THEN [backstory |-> genieToolCall.input.backstory,
           shouldAutoRespond |-> genieToolCall.input.shouldAutoRespond]
     ELSE Undefined

\* lib/blockParsers.ts is not among the sources: parseBlockOutput hands the
\* response to the parse method of the node type's interface
parseBlockOutput(nodeType, response, blockId) ==
  CASE nodeType = "color_display" -> ColorParse(response)
    [] nodeType = "pixel_art_display" -> PixelArtParse(response)
    [] nodeType = "genie" -> GenieParse(response)
    [] OTHER -> Undefined

\* nodes.find((n) => n.id === id), or Undefined
FindNode(ns, id) ==
  LET hits == {i \in 1..Len(ns) : ns[i].id = id}
  IN IF hits = {} THEN Undefined ELSE ns[MinOf(hits)]

\* nodes.findIndex((n) => n.id === id), counting from 0; -1 when absent
FindIndex(ns, id) ==
  LET hits == {i \in 1..Len(ns) : ns[i].id = id}
  IN IF hits = {} THEN -1 ELSE MinOf(hits) - 1

\* the loop of routeToolCalls, with the outputs gathered so far
RECURSIVE routeToolCallsFrom(_, _, _, _, _)
routeToolCallsFrom(toolCalls, nodeIdByToolName, ns, response, acc) ==
  IF toolCalls = <<>> THEN acc
  ELSE LET toolCall == Head(toolCalls)
           known == toolCall.toolName \in DOMAIN nodeIdByToolName
           targetNodeId == nodeIdByToolName[toolCall.toolName]
           targetNode == FindNode(ns, targetNodeId)
           parsedOutput ==
             parseBlockOutput(targetNode.type, response, targetNodeId)
           next ==
             IF known /\ targetNode # Undefined /\ parsedOutput # Undefined
             THEN MapPut(acc, targetNodeId, parsedOutput)
             ELSE acc
       IN routeToolCallsFrom(Tail(toolCalls), nodeIdByToolName, ns, response,
                             next)

routeToolCalls(toolCalls, nodeIdByToolName, ns, inferenceResponse) ==
  routeToolCallsFrom(toolCalls, nodeIdByToolName, ns, inferenceResponse,
                     EmptyMap)

----------------------------------------------------------------------------
(* The builder: state and handlers                                         *)
(* usePipelineState holds nodes, outputs, userInputs, genieConversations   *)
(* and genieBackstoryUpdates; PipelineBuilder holds loadingNodeId. calls   *)
(* are the runInference promises not yet settled, each with what its       *)
(* handler's closure captured when it started; timers are the setTimeout   *)
(* callbacks of processBackstoryUpdates not yet run. lastEvent records the *)
(* handler step taken last. The fixed system prompt's text, the URL        *)
(* contexts and the prompt text sent with a call are not modelled.         *)

\* bounds: calls and timers pending at once when the user starts another;
\* turns a conversation may hold when the user starts another
MaxInFlight == 2
MaxTurns == 1

NoConfig == [name |-> <<>>, backstory |-> "", autoRespondOnUpdate |-> FALSE]

SystemPromptNode ==
  [id |-> "system-prompt-fixed", type |-> "system_prompt", config |-> NoConfig]

\* a slip: the fixed system prompt is put after the user's nodes
fullNodes_Last(ns) == ns \o <<SystemPromptNode>>

\* fullNodes / allNodes: the fixed system prompt, then the user's nodes
fullNodes(ns) == <<SystemPromptNode>> \o ns

GenieNode(id, autoRespond) ==
  [id |-> id, type |-> "genie",
   config |-> [name |-> StrGenie, backstory |-> "b0",
               autoRespondOnUpdate |-> autoRespond]]
OutputNode(id, type, name) ==
  [id |-> id, type |-> type, config |-> [NoConfig EXCEPT !.name = name]]
InferenceNode(id) == [id |-> id, type |-> "inference", config |-> NoConfig]

\* the user's nodes of the mood scenario
MoodPipeline ==
  <<OutputNode("c1", "color_display", StrMood), InferenceNode("i1")>>

\* the pipelines the builder starts from
UiPipelines ==
  {<<GenieNode("g1", TRUE), InferenceNode("i1")>>,
   <<GenieNode("g1", FALSE), InferenceNode("i1")>>,
   MoodPipeline,
   <<OutputNode("p1", "pixel_art_display", <<>>), InferenceNode("i1")>>,
   <<GenieNode("g1", FALSE), GenieNode("g2", FALSE)>>}

IntroduceYourself == "Introduce yourself."
BackstoryUpdated == "Your backstory has been updated. Say something new."
UserMessages == {"hello"}
GenieReplies == {"g1"}

\* userMessage.trim() is empty
IsBlank(text) == text \in {"", " "}

EqualRows == <<<<"W", "W">>, <<".", "W">>>>
UnequalRows == <<<<"W", "W">>, <<".">>>>

StrNoSuch == <<"n", "o", "_", "s", "u", "c", "h">>

\* the reply of the mood scenario: one call of the mood colour tool
MoodColorCall ==
  ToolCall(generateToolName(baseToolName("color"), StrMood),
           [NoInput EXCEPT !.hex = "#3498DB"])

\* the tool calls a reply may hold
ReplyToolCalls ==
  {<<>>,
   <<ToolCall(StrNoSuch, NoInput)>>,
   <<MoodColorCall>>,
   <<ToolCall(generateToolName(baseToolName("color"), StrMood),
              [NoInput EXCEPT !.hex = "red"])>>,
   <<ToolCall(baseToolName("pixel_art"),
              [NoInput EXCEPT !.colors = Object, !.grid = Array(EqualRows)])>>,
   <<ToolCall(baseToolName("pixel_art"),
              [NoInput EXCEPT !.colors = Object, !.grid = Array(UnequalRows)])>>,
   <<ToolCall(baseToolName("pixel_art"), [NoInput EXCEPT !.colors = Object])>>,
   <<ToolCall(StrSendMessageTo \o StrGenie,
              [NoInput EXCEPT !.backstory = "b1", !.shouldAutoRespond = TRUE])>>,
   <<ToolCall(StrSendMessageTo \o StrGenie,
              [NoInput EXCEPT !.backstory = "b1", !.shouldAutoRespond = FALSE])>>}

NoResult == [response |-> "", toolCalls |-> <<>>]

\* the successful results of a main-pipeline call: text with tool calls, or
\* neither
RunResults ==
  {[response |-> "r1", toolCalls |-> toolCalls] : toolCalls \in ReplyToolCalls}
    \cup {NoResult}

NoCall ==
  [kind |-> "none", nodeId |-> "null", userMessage |-> "",
   conversation |-> <<>>, viaTimer |-> FALSE,
   precedingNodes |-> <<>>, fullNodes |-> <<>>, tools |-> <<>>,
   nodeIdByToolName |-> EmptyMap,
   closureNodes |-> <<>>, closureConversations |-> EmptyMap]

Event(kind, nodeId, call, result) ==
  [kind |-> kind, nodeId |-> nodeId, call |-> call, result |-> result]

RemoveAt(seq, k) == SubSeq(seq, 1, k - 1) \o SubSeq(seq, k + 1, Len(seq))

\* map[key] || fallback
MapGet(m, key, fallback) == IF key \in DOMAIN m THEN m[key] ELSE fallback

NodeIds(ns) == {ns[i].id : i \in 1..Len(ns)}
NodeIdsOfType(ns, type) == {ns[i].id : i \in {j \in 1..Len(ns) : ns[j].type = type}}

UiInit ==
  /\ nodes \in UiPipelines
  /\ outputs = EmptyMap
  /\ userInputs = [id \in {"i1"} |-> "I feel calm"]
  /\ genieConversations = EmptyMap
  /\ genieBackstoryUpdates = EmptyMap
  /\ loadingNodeId = "null"
  /\ calls = <<>>
  /\ timers = <<>>
  /\ lastEvent = Event("init", "null", NoCall, NoResult)
  /\ nodeIdCounter = 0

UiIdle ==
  /\ nodes = <<>>
  /\ outputs = EmptyMap
  /\ userInputs = EmptyMap
  /\ genieConversations = EmptyMap
  /\ genieBackstoryUpdates = EmptyMap
  /\ loadingNodeId = "null"
  /\ calls = <<>>
  /\ timers = <<>>
  /\ lastEvent = Event("idle", "null", NoCall, NoResult)
  /\ nodeIdCounter = 0

----------------------------------------------------------------------------
(* useGenieState                                                           *)

Call(kind, nodeId, userMessage, conversation, viaTimer) ==
  [NoCall EXCEPT !.kind = kind, !.nodeId = nodeId,
                 !.userMessage = userMessage, !.conversation = conversation,
                 !.viaTimer = viaTimer]

\* selfInference up to its await, run with the nodes and genieConversations
\* its closure holds
selfInferenceBegins(nodeId, userMessage, cNodes, cConvs, viaTimer) ==
  LET genieNode == FindNode(cNodes, nodeId)
      conversation == MapGet(cConvs, nodeId, <<>>)
      call == Call("self", nodeId, userMessage, conversation, viaTimer)
  IN IF genieNode = Undefined \/ genieNode.type # "genie"
     THEN /\ UNCHANGED <<loadingNodeId, calls>>
          /\ lastEvent' = Event("selfSkipped", nodeId, NoCall, NoResult)
     ELSE /\ loadingNodeId' = nodeId
          /\ calls' = Append(calls, call)
          /\ lastEvent' = Event("selfStart", nodeId, call, NoResult)

\* the user sends a message to a genie
SelfInferenceStart(nodeId, userMessage) ==
  /\ Len(calls) + Len(timers) < MaxInFlight
  /\ Len(MapGet(genieConversations, nodeId, <<>>)) < 2 * MaxTurns
  /\ selfInferenceBegins(nodeId, userMessage, nodes, genieConversations, FALSE)
  /\ UNCHANGED <<nodes, outputs, userInputs, genieConversations,
                 genieBackstoryUpdates, timers>>
  /\ UNCHANGED <<nmVars, rsVars, exVars, ddVars, bpVars>>

\* the conversation selfInference stores once the model has answered
selfInferenceMessages(call, response) ==
  call.conversation \o <<Msg("user", call.userMessage),
                         Msg("assistant", response)>>

\* a selfInference whose call answered: result.error is not set
SelfInferenceSucceeds(k, response) ==
  /\ calls[k].kind = "self"
  /\ genieConversations' =
       MapPut(genieConversations, calls[k].nodeId,
              selfInferenceMessages(calls[k], response))
  /\ loadingNodeId' = "null"
  /\ calls' = RemoveAt(calls, k)
  /\ lastEvent' = Event("selfOk", calls[k].nodeId, calls[k],
                        [NoResult EXCEPT !.response = response])
  /\ UNCHANGED <<nodes, outputs, userInputs, genieBackstoryUpdates, timers>>
  /\ UNCHANGED <<nmVars, rsVars, exVars, ddVars, bpVars>>

\* a store written on the failure path all the same
afterFailedCall_ClearsOutputs ==
  /\ outputs' = EmptyMap
  /\ UNCHANGED <<nodes, userInputs, genieConversations,
                 genieBackstoryUpdates, timers>>

\* what a handler leaves of the stores when its call reports an error or throws
afterFailedCall ==
  UNCHANGED <<nodes, outputs, userInputs, genieConversations,
              genieBackstoryUpdates, timers>>

\* a slip: the failure path leaves without clearing the loading marker
SelfInferenceFails_KeepsLoading(k, how) ==
  /\ calls[k].kind = "self"
  /\ afterFailedCall
  /\ UNCHANGED loadingNodeId
  /\ calls' = RemoveAt(calls, k)
  /\ lastEvent' = Event(how, calls[k].nodeId, calls[k], NoResult)
  /\ UNCHANGED <<nmVars, rsVars, exVars, ddVars, bpVars>>

\* a selfInference whose call came back with result.error, or threw
SelfInferenceFails(k, how) ==
  /\ calls[k].kind = "self"
  /\ afterFailedCall
  /\ loadingNodeId' = "null"
  /\ calls' = RemoveAt(calls, k)
  /\ lastEvent' = Event(how, calls[k].nodeId, calls[k], NoResult)
  /\ UNCHANGED <<nmVars, rsVars, exVars, ddVars, bpVars>>

\* saveBackstory up to its await
SaveBackstoryStart(nodeId) ==
  LET genieNode == FindNode(nodes, nodeId)
      call == Call("save", nodeId, IntroduceYourself, <<>>, FALSE)
  IN /\ Len(calls) + Len(timers) < MaxInFlight
     /\ genieNode # Undefined
     /\ genieNode.type = "genie"
     /\ loadingNodeId' = nodeId
     /\ calls' = Append(calls, call)
     /\ lastEvent' = Event("saveStart", nodeId, call, NoResult)
     /\ UNCHANGED <<nodes, outputs, userInputs, genieConversations,
                    genieBackstoryUpdates, timers>>
     /\ UNCHANGED <<nmVars, rsVars, exVars, ddVars, bpVars>>

SaveBackstorySucceeds(k, response) ==
  /\ calls[k].kind = "save"
  /\ genieConversations' =
       MapPut(genieConversations, calls[k].nodeId,
              <<Msg("user", IntroduceYourself), Msg("assistant", response)>>)
  /\ loadingNodeId' = "null"
  /\ calls' = RemoveAt(calls, k)
  /\ lastEvent' = Event("saveOk", calls[k].nodeId, calls[k],
                        [NoResult EXCEPT !.response = response])
  /\ UNCHANGED <<nodes, outputs, userInputs, genieBackstoryUpdates, timers>>
  /\ UNCHANGED <<nmVars, rsVars, exVars, ddVars, bpVars>>

SaveBackstoryFails(k, how) ==
  /\ calls[k].kind = "save"
  /\ afterFailedCall
  /\ loadingNodeId' = "null"
  /\ calls' = RemoveAt(calls, k)
  /\ lastEvent' = Event(how, calls[k].nodeId, calls[k], NoResult)
  /\ UNCHANGED <<nmVars, rsVars, exVars, ddVars, bpVars>>

\* update?.backstory is set
HasBackstory(update) ==
  update # Undefined /\ update.backstory \notin {"undefined", ""}

\* the loop of processBackstoryUpdates over precedingNodes[k..]; acc holds the
\* nodes, the notification flags and the timers as the iterations leave them.
\* The timer's callback is the selfInference of the render the handler ran in.
RECURSIVE backstoryUpdatesFrom(_, _, _, _, _, _)
backstoryUpdatesFrom(precedingNodes, k, response, cNodes, cConvs, acc) ==
  IF k > Len(precedingNodes) THEN acc
  ELSE LET node == precedingNodes[k]
           update == parseBlockOutput("genie", response, node.id)
           genieConfig == node.config
           updated ==
             [i \in 1..Len(acc.nodes) |->
                IF acc.nodes[i].id = node.id
                THEN [acc.nodes[i] EXCEPT
                        !.config = [genieConfig EXCEPT
                                      !.backstory = update.backstory]]
                ELSE acc.nodes[i]]
           timer == [nodeId |-> node.id, closureNodes |-> cNodes,
                     closureConversations |-> cConvs]
           next ==
             IF node.type = "genie" /\ HasBackstory(update)
             THEN [nodes |-> updated,
                   updates |-> MapPut(acc.updates, node.id, TRUE),
                   timers |->
                     IF update.shouldAutoRespond
                          /\ genieConfig.autoRespondOnUpdate
                     THEN Append(acc.timers, timer)
                     ELSE acc.timers]
             ELSE acc
       IN backstoryUpdatesFrom(precedingNodes, k + 1, response, cNodes,
                               cConvs, next)

\* the same loop without the follow-up timer
processBackstoryUpdates_NoTimer(precedingNodes, response, cNodes, cConvs, acc) ==
  [backstoryUpdatesFrom(precedingNodes, 1, response, cNodes, cConvs, acc)
     EXCEPT !.timers = acc.timers]

processBackstoryUpdates(precedingNodes, response, cNodes, cConvs, acc) ==
  backstoryUpdatesFrom(precedingNodes, 1, response, cNodes, cConvs, acc)

\* the setTimeout callback of processBackstoryUpdates runs
TimerFires(t) ==
  /\ selfInferenceBegins(timers[t].nodeId, BackstoryUpdated,
                         timers[t].closureNodes,
                         timers[t].closureConversations, TRUE)
  /\ timers' = RemoveAt(timers, t)
  /\ UNCHANGED <<nodes, outputs, userInputs, genieConversations,
                 genieBackstoryUpdates>>
  /\ UNCHANGED <<nmVars, rsVars, exVars, ddVars, bpVars>>

----------------------------------------------------------------------------
(* PipelineBuilder and usePipelineState                                    *)

\* the tools and their owners handleRunInference resolves for the node at
\* nodeIndex of the full list, here with the user's nodes in place of the
\* full list
resolveTools_UserNodes(ns, nodeIndex) == getToolsFromPrecedingNodes(ns, nodeIndex)

\* the tools and their owners handleRunInference resolves
resolveTools(ns, nodeIndex) ==
  getToolsFromPrecedingNodes(fullNodes(ns), nodeIndex)

\* handleRunInference up to its await
RunInferenceStart(inferenceNodeId) ==
  LET full == fullNodes(nodes)
      nodeIndex == FindIndex(full, inferenceNodeId)
      userMessage == MapGet(userInputs, inferenceNodeId, "")
      resolved == resolveTools(nodes, nodeIndex)
      call == [Call("run", inferenceNodeId, userMessage, <<>>, FALSE)
                 EXCEPT !.closureNodes = nodes,
                        !.closureConversations = genieConversations,
                        !.precedingNodes = SubSeq(full, 1, nodeIndex),
                        !.fullNodes = full,
                        !.tools = resolved.tools,
                        !.nodeIdByToolName = resolved.nodeIdByToolName]
  IN /\ Len(calls) + Len(timers) < MaxInFlight
     /\ \A id \in DOMAIN genieConversations :
          Len(genieConversations[id]) < 2 * MaxTurns
     /\ nodeIndex # -1
     /\ ~IsBlank(userMessage)
     /\ loadingNodeId' = inferenceNodeId
     /\ calls' = Append(calls, call)
     /\ lastEvent' = Event("runStart", inferenceNodeId, call, NoResult)
     /\ UNCHANGED <<nodes, outputs, userInputs, genieConversations,
                    genieBackstoryUpdates, timers>>
     /\ UNCHANGED <<nmVars, rsVars, exVars, ddVars, bpVars>>

\* Object.entries(routed).forEach(([id, output]) => setOutput(id, output))
setOutputs(outs, routed) ==
  [id \in DOMAIN outs \cup DOMAIN routed |->
     IF id \in DOMAIN routed THEN routed[id] ELSE outs[id]]

\* handleRunInference after a call that answered. The handler of part_008
\* calls the router with the tool calls and the owners only; the router of
\* services/inference/toolRouter.ts also takes the node list and the
\* response, and is given the handler's fullNodes and result here.
RunInferenceSucceeds(k, result) ==
  LET call == calls[k]
      withText ==
        IF result.response # ""
        THEN MapPut(outputs, call.nodeId, [content |-> result.response])
        ELSE outputs
      routed ==
        IF Len(result.toolCalls) > 0
        THEN routeToolCalls(result.toolCalls, call.nodeIdByToolName,
                            call.fullNodes, result)
        ELSE EmptyMap
      after ==
        processBackstoryUpdates(call.precedingNodes, result, call.closureNodes,
                                call.closureConversations,
                                [nodes |-> nodes,
                                 updates |-> genieBackstoryUpdates,
                                 timers |-> timers])
  IN /\ call.kind = "run"
     /\ outputs' = setOutputs(withText, routed)
     /\ nodes' = after.nodes
     /\ genieBackstoryUpdates' = after.updates
     /\ timers' = after.timers
     /\ loadingNodeId' = "null"
     /\ calls' = RemoveAt(calls, k)
     /\ lastEvent' = Event("runOk", call.nodeId, call, result)
     /\ UNCHANGED <<userInputs, genieConversations>>
     /\ UNCHANGED <<nmVars, rsVars, exVars, ddVars, bpVars>>

\* handleRunInference after a call that came back with result.error, or threw
RunInferenceFails(k, how) ==
  /\ calls[k].kind = "run"
  /\ afterFailedCall
  /\ loadingNodeId' = "null"
  /\ calls' = RemoveAt(calls, k)
  /\ lastEvent' = Event(how, calls[k].nodeId, calls[k], NoResult)
  /\ UNCHANGED <<nmVars, rsVars, exVars, ddVars, bpVars>>

\* usePipelineState.removeNode
RemoveNode(nodeId) ==
  LET Keeps(n) == n.id # nodeId
  IN /\ IF nodeId = "system-prompt-fixed"
        THEN UNCHANGED <<nodes, outputs, userInputs, genieConversations,
                         genieBackstoryUpdates>>
        ELSE /\ nodes' = SelectSeq(nodes, Keeps)
             /\ userInputs' = MapDelete(userInputs, nodeId)
             /\ outputs' = MapDelete(outputs, nodeId)
             /\ genieConversations' = MapDelete(genieConversations, nodeId)
             /\ genieBackstoryUpdates' = MapDelete(genieBackstoryUpdates, nodeId)
     /\ lastEvent' = Event("remove", nodeId, NoCall, NoResult)
     /\ UNCHANGED <<loadingNodeId, calls, timers>>
     /\ UNCHANGED <<nmVars, rsVars, exVars, ddVars, bpVars>>

\* usePipelineState.clearGenieUpdate
ClearGenieUpdate(nodeId) ==
  /\ genieBackstoryUpdates' = MapDelete(genieBackstoryUpdates, nodeId)
  /\ lastEvent' = Event("clear", nodeId, NoCall, NoResult)
  /\ UNCHANGED <<nodes, outputs, userInputs, genieConversations,
                 loadingNodeId, calls, timers>>
  /\ UNCHANGED <<nmVars, rsVars, exVars, ddVars, bpVars>>

FailureKinds == {"error", "throw"}

UiNext ==
  \/ \E id \in NodeIdsOfType(nodes, "genie"), m \in UserMessages :
       SelfInferenceStart(id, m)
  \/ \E k \in 1..Len(calls), r \in GenieReplies : SelfInferenceSucceeds(k, r)
  \/ \E k \in 1..Len(calls), how \in FailureKinds : SelfInferenceFails(k, how)
  \/ \E id \in NodeIdsOfType(nodes, "genie") : SaveBackstoryStart(id)
  \/ \E k \in 1..Len(calls), r \in GenieReplies : SaveBackstorySucceeds(k, r)
  \/ \E k \in 1..Len(calls), how \in FailureKinds : SaveBackstoryFails(k, how)
  \/ \E id \in NodeIdsOfType(nodes, "inference") : RunInferenceStart(id)
  \/ \E k \in 1..Len(calls), result \in RunResults :
       RunInferenceSucceeds(k, result)
  \/ \E k \in 1..Len(calls), how \in FailureKinds : RunInferenceFails(k, how)
  \/ \E t \in 1..Len(timers) : TimerFires(t)
  \/ \E id \in NodeIds(fullNodes(nodes)) : RemoveNode(id)
  \/ \E id \in DOMAIN genieBackstoryUpdates : ClearGenieUpdate(id)

----------------------------------------------------------------------------
(* usePipelineDragDrop: palette drops and reorder drags                    *)

\* bound: the node ids generateNodeId hands out
MaxNodeIds == 3

\* generateNodeId, without the time stamp
NodeIdOf(counter) ==
  CASE counter = 1 -> "node-1"
    [] counter = 2 -> "node-2"
    [] counter = 3 -> "node-3"
    [] counter = 4 -> "node-4"
    [] OTHER -> "node-5"

\* the module types dragged from the palette
PaletteTypes == {"system_prompt", "genie", "inference", "color_display"}

getDefaultConfig(type) ==
  IF type = "genie"
  THEN [name |-> StrGenie, backstory |-> "You are a helpful genie.",
        autoRespondOnUpdate |-> FALSE]
  ELSE NoConfig

\* usePipelineState.addNode; insertIndex = -1 stands for undefined
addNode(prev, node, insertIndex) ==
  IF insertIndex = -1 THEN Append(prev, node)
  ELSE SubSeq(prev, 1, insertIndex) \o <<node>>
         \o SubSeq(prev, insertIndex + 1, Len(prev))

\* usePipelineState.reorderNodes: arrayMove(prev, oldIndex, newIndex) takes
\* the element at oldIndex out and puts it in at newIndex (both from 0)
reorderNodes(prev, oldIndex, newIndex) ==
  LET moved == prev[oldIndex + 1]
      rest == RemoveAt(prev, oldIndex + 1)
  IN SubSeq(rest, 1, newIndex) \o <<moved>> \o SubSeq(rest, newIndex + 1, Len(rest))

\* what is dragged: a module of the palette, or a node of the canvas
PaletteItem(type) == [id |-> "palette", fromPalette |-> TRUE, type |-> type]
CanvasItem(id) == [id |-> id, fromPalette |-> FALSE, type |-> "none"]

\* where a drag may end: nowhere, on the canvas, or on a node of the canvas
DropTargets(ns) == {"none", "pipeline-canvas"} \cup NodeIds(fullNodes(ns))

\* handleDragEnd
DragEnd(active, over) ==
  LET newNode == [id |-> NodeIdOf(nodeIdCounter + 1), type |-> active.type,
                  config |-> getDefaultConfig(active.type)]
      overIndex == FindIndex(nodes, over)
      oldIndex == FindIndex(nodes, active.id)
      newIndex == FindIndex(nodes, over)
  IN /\ active.fromPalette /\ active.type # "system_prompt" /\ over # "none"
          => nodeIdCounter < MaxNodeIds
     /\ IF over = "none" THEN UNCHANGED <<nodes, nodeIdCounter>>
        ELSE IF active.fromPalette
        THEN IF active.type = "system_prompt"
             THEN UNCHANGED <<nodes, nodeIdCounter>>
             ELSE /\ nodeIdCounter' = nodeIdCounter + 1
                  /\ nodes' =
                       IF over = "pipeline-canvas" THEN addNode(nodes, newNode, -1)
                       ELSE IF over = "system-prompt-fixed"
                       THEN addNode(nodes, newNode, 0)
                       ELSE addNode(nodes, newNode, overIndex)
        ELSE /\ UNCHANGED nodeIdCounter
             /\ IF /\ active.id # over
                   /\ active.id # "system-prompt-fixed"
                   /\ over # "system-prompt-fixed"
                   /\ oldIndex # -1
                   /\ newIndex # -1
                THEN nodes' = reorderNodes(nodes, oldIndex, newIndex)
                ELSE UNCHANGED nodes
     /\ lastEvent' = Event(IF active.fromPalette THEN "drop" ELSE "reorder",
                           over, NoCall, NoResult)
     /\ UNCHANGED <<outputs, userInputs, genieConversations,
                    genieBackstoryUpdates, loadingNodeId, calls, timers>>
     /\ UNCHANGED <<nmVars, rsVars, exVars, bpVars>>

DdNext ==
  \/ \E type \in PaletteTypes, over \in DropTargets(nodes) :
       DragEnd(PaletteItem(type), over)
  \/ \E id \in NodeIds(fullNodes(nodes)), over \in DropTargets(nodes) :
       DragEnd(CanvasItem(id), over)
  \/ \E id \in NodeIds(fullNodes(nodes)) : RemoveNode(id)

----------------------------------------------------------------------------
(* Configuration edits and replies with calls for two colour nodes         *)

StrBrand == <<"b", "r", "a", "n", "d">>

\* two colour nodes with the custom names "mood" and "brand"
TwoColorPipeline ==
  <<OutputNode("c1", "color_display", StrMood),
    OutputNode("c2", "color_display", StrBrand), InferenceNode("i1")>>

\* the pipelines the builder is edited from
EditPipelines ==
  {TwoColorPipeline,
   <<GenieNode("g1", TRUE), InferenceNode("i1")>>,
   <<GenieNode("g1", FALSE), InferenceNode("i1")>>}

BrandColorCall ==
  ToolCall(generateToolName(baseToolName("color"), StrBrand),
           [NoInput EXCEPT !.hex = "#E74C3C"])

\* the successful results of a main-pipeline call in these pipelines
EditResults ==
  {[response |-> "r1", toolCalls |-> toolCalls] :
     toolCalls \in
       {<<MoodColorCall, BrandColorCall>>, <<BrandColorCall, MoodColorCall>>,
        <<BrandColorCall>>,
        <<ToolCall(StrSendMessageTo \o StrGenie,
                   [NoInput EXCEPT !.backstory = "b1",
                                   !.shouldAutoRespond = TRUE])>>,
        <<ToolCall(StrSendMessageTo \o StrGenie,
                   [NoInput EXCEPT !.backstory = "b1",
                                   !.shouldAutoRespond = FALSE])>>}}

EdInit ==
  /\ nodes \in EditPipelines
  /\ outputs = EmptyMap
  /\ userInputs = [id \in {"i1"} |-> "I feel calm"]
  /\ genieConversations = EmptyMap
  /\ genieBackstoryUpdates = EmptyMap
  /\ loadingNodeId = "null"
  /\ calls = <<>>
  /\ timers = <<>>
  /\ lastEvent = Event("init", "null", NoCall, NoResult)
  /\ nodeIdCounter = 0

\* usePipelineState.updateConfig; the fixed system prompt's configuration is
\* kept apart from nodes and is not modelled
UpdateConfig(nodeId, config) ==
  /\ IF nodeId = "system-prompt-fixed"
     THEN UNCHANGED nodes
     ELSE nodes' = [i \in 1..Len(nodes) |->
                      IF nodes[i].id = nodeId
                      THEN [nodes[i] EXCEPT !.config = config]
                      ELSE nodes[i]]
  /\ lastEvent' = Event("config", nodeId, NoCall, NoResult)
  /\ UNCHANGED <<outputs, userInputs, genieConversations,
                 genieBackstoryUpdates, loadingNodeId, calls, timers>>
  /\ UNCHANGED <<nmVars, rsVars, exVars, ddVars, bpVars>>

\* the editor of a genie node switches autoRespondOnUpdate
EdNext ==
  \/ \E id \in NodeIdsOfType(nodes, "inference") : RunInferenceStart(id)
  \/ \E k \in 1..Len(calls), result \in EditResults :
       RunInferenceSucceeds(k, result)
  \/ \E k \in 1..Len(calls), how \in FailureKinds : RunInferenceFails(k, how)
  \/ \E id \in NodeIdsOfType(nodes, "genie"), auto \in BOOLEAN :
       UpdateConfig(id, [FindNode(nodes, id).config
                           EXCEPT !.autoRespondOnUpdate = auto])
  \/ UpdateConfig("system-prompt-fixed", NoConfig)
  \/ \E t \in 1..Len(timers) : TimerFires(t)
  \/ \E k \in 1..Len(calls), r \in GenieReplies : SelfInferenceSucceeds(k, r)
  \/ \E k \in 1..Len(calls), how \in FailureKinds : SelfInferenceFails(k, how)

----------------------------------------------------------------------------
(* handleRunInference of components/builder/PipelineBuilder.tsx            *)

\* the tools and their owners this handler resolves: the index of the node in
\* the full list, applied to the user's nodes
resolveToolsLegacy(ns, nodeIndex) == getToolsFromPrecedingNodes(ns, nodeIndex)

\* the handler up to its await
LegacyRunInferenceStart(inferenceNodeId) ==
  LET full == fullNodes(nodes)
      nodeIndex == FindIndex(full, inferenceNodeId)
      userMessage == MapGet(userInputs, inferenceNodeId, "")
      resolved == resolveToolsLegacy(nodes, nodeIndex)
      call == [Call("legacy", inferenceNodeId, userMessage, <<>>, FALSE)
                 EXCEPT !.closureNodes = nodes,
                        !.closureConversations = genieConversations,
                        !.precedingNodes = SubSeq(full, 1, nodeIndex),
                        !.fullNodes = full,
                        !.tools = resolved.tools,
                        !.nodeIdByToolName = resolved.nodeIdByToolName]
  IN /\ Len(calls) < MaxInFlight
     /\ nodeIndex # -1
     /\ ~IsBlank(userMessage)
     /\ loadingNodeId' = inferenceNodeId
     /\ calls' = Append(calls, call)
     /\ lastEvent' = Event("legacyStart", inferenceNodeId, call, NoResult)
     /\ UNCHANGED <<nodes, outputs, userInputs, genieConversations,
                    genieBackstoryUpdates, timers>>
     /\ UNCHANGED <<nmVars, rsVars, exVars, ddVars, bpVars>>

\* the loop over data.toolCalls: newOutputs[targetNodeId] = toolCall.input
RECURSIVE legacyOutputsFrom(_, _, _)
legacyOutputsFrom(toolCalls, nodeIdByToolName, newOutputs) ==
  IF toolCalls = <<>> THEN newOutputs
  ELSE LET toolCall == Head(toolCalls)
       IN legacyOutputsFrom(
            Tail(toolCalls), nodeIdByToolName,
            IF toolCall.toolName \in DOMAIN nodeIdByToolName
            THEN MapPut(newOutputs, nodeIdByToolName[toolCall.toolName],
                        toolCall.input)
            ELSE newOutputs)

\* the handler after a call that answered
LegacyRunInferenceSucceeds(k, result) ==
  LET call == calls[k]
      withText ==
        IF result.response # ""
        THEN MapPut(outputs, call.nodeId, [content |-> result.response])
        ELSE outputs
      newOutputs ==
        legacyOutputsFrom(result.toolCalls, call.nodeIdByToolName, EmptyMap)
  IN /\ call.kind = "legacy"
     /\ outputs' = setOutputs(withText, newOutputs)
     /\ loadingNodeId' = "null"
     /\ calls' = RemoveAt(calls, k)
     /\ lastEvent' = Event("legacyOk", call.nodeId, call, result)
     /\ UNCHANGED <<nodes, userInputs, genieConversations,
                    genieBackstoryUpdates, timers>>
     /\ UNCHANGED <<nmVars, rsVars, exVars, ddVars, bpVars>>

\* the handler after a call that came back with data.error, or threw
LegacyRunInferenceFails(k, how) ==
  /\ calls[k].kind = "legacy"
  /\ afterFailedCall
  /\ loadingNodeId' = "null"
  /\ calls' = RemoveAt(calls, k)
  /\ lastEvent' = Event(how, calls[k].nodeId, calls[k], NoResult)
  /\ UNCHANGED <<nmVars, rsVars, exVars, ddVars, bpVars>>

LegacyNext ==
  \/ \E id \in NodeIdsOfType(nodes, "inference") : LegacyRunInferenceStart(id)
  \/ \E k \in 1..Len(calls), result \in RunResults :
       LegacyRunInferenceSucceeds(k, result)
  \/ \E k \in 1..Len(calls), how \in FailureKinds :
       LegacyRunInferenceFails(k, how)
  \/ \E id \in NodeIds(fullNodes(nodes)), over \in DropTargets(nodes) :
       DragEnd(CanvasItem(id), over)
  \/ \E id \in NodeIds(fullNodes(nodes)) : RemoveNode(id)

----------------------------------------------------------------------------
(* buildSystemPrompt (promptBuilder)                                       *)
(* The prompt is the sequence of the parts appended to it, each with its   *)
(* kind and the node it is about. URL contexts are not modelled.           *)

\* bound: the preceding nodes of one call
MaxBpNodes == 2

Part(kind, nodeId) == [kind |-> kind, nodeId |-> nodeId]

\* lib/blockParsers.ts is not among the sources. From the design:
\* generateBlockMetadata describes the tool a node exposes and how to use it,
\* and is empty for a node that exposes none.
generateBlockMetadata(node) ==
  IF getToolForNode(node) # <<>> \/ getGenieTool(node) # <<>>
  THEN <<Part("metadata", node.id)>>
  ELSE <<>>

\* the loop over precedingNodes[k..]
RECURSIVE nodeContextFrom(_, _, _)
nodeContextFrom(precedingNodes, k, conversations) ==
  IF k > Len(precedingNodes) THEN <<>>
  ELSE LET node == precedingNodes[k]
           conversation == MapGet(conversations, node.id, <<>>)
           here ==
             IF node.type = "genie"
             THEN IF Len(conversation) > 0
                  THEN <<Part("genieContext", node.id)>>
                  ELSE <<>>
             ELSE generateBlockMetadata(node)
       IN here \o nodeContextFrom(precedingNodes, k + 1, conversations)

\* gatherTextInputs and the "Additional Context" block
textInputParts(precedingNodes, inputs) ==
  LET IsFilled(node) ==
        node.type = "text_input" /\ ~IsBlank(MapGet(inputs, node.id, ""))
      items == SelectSeq(precedingNodes, IsFilled)
  IN IF Len(items) > 0
     THEN <<Part("additionalContextHeader", "null")>>
            \o [i \in 1..Len(items) |-> Part("textInput", items[i].id)]
     ELSE <<>>

buildSystemPrompt(basePrompt, precedingNodes, conversations, inputs, options) ==
  LET base == IF basePrompt # "" THEN <<Part("base", "null")>> ELSE <<>>
      withAdditional ==
        IF options.additionalPrompt # ""
        THEN (IF base # <<>> THEN base \o <<Part("separator", "null")>>
              ELSE base) \o <<Part("additional", "null")>>
        ELSE base
      withNodes ==
        IF options.includeGenieConversations
        THEN withAdditional
               \o nodeContextFrom(precedingNodes, 1, conversations)
        ELSE withAdditional
  IN withNodes \o textInputParts(precedingNodes, inputs)

\* the nodes that may precede: a genie, a named colour node, a text input
BpNodeShapes(id) ==
  {GenieNode(id, FALSE), OutputNode(id, "color_display", StrMood),
   [id |-> id, type |-> "text_input", config |-> NoConfig]}

BpIds == <<"n1", "n2", "n3">>

BpPipelines ==
  UNION {{ns \in [1..n -> UNION {BpNodeShapes(BpIds[i]) : i \in 1..MaxBpNodes}] :
            \A i \in 1..n : ns[i].id = BpIds[i]} : n \in 0..MaxBpNodes}

BpInit ==
  /\ bpInput \in
       [basePrompt : {"", "base"},
        precedingNodes : BpPipelines,
        genieConversations :
          {EmptyMap, [id \in {"n1"} |-> <<Msg("user", "hello")>>]},
        userInputs : {EmptyMap, [id \in {"n2"} |-> "notes"]},
        options : [additionalPrompt : {"", "identity"},
                   includeGenieConversations : BOOLEAN]]
  /\ bpResult = [done |-> FALSE, prompt |-> <<>>]

BpIdle ==
  /\ bpInput = [basePrompt |-> "", precedingNodes |-> <<>>,
                genieConversations |-> EmptyMap, userInputs |-> EmptyMap,
                options |-> [additionalPrompt |-> "",
                             includeGenieConversations |-> TRUE]]
  /\ bpResult = [done |-> FALSE, prompt |-> <<>>]

\* one call of buildSystemPrompt
BuildPrompt ==
  /\ ~bpResult.done
  /\ bpResult' =
       [done |-> TRUE,
        prompt |-> buildSystemPrompt(bpInput.basePrompt, bpInput.precedingNodes,
                                     bpInput.genieConversations,
                                     bpInput.userInputs, bpInput.options)]
  /\ UNCHANGED bpInput
  /\ UNCHANGED <<nmVars, rsVars, exVars, uiVars, ddVars>>

----------------------------------------------------------------------------
(* Specifications                                                          *)

\* the builder and its handlers
Init == NmIdle /\ RsIdle /\ ExIdle /\ UiInit /\ BpIdle
Next == UiNext
Spec == Init /\ [][Next]_vars

\* the name functions on one input
InitNames == NmInit /\ RsIdle /\ ExIdle /\ UiIdle /\ BpIdle
NextNames == NmNext
SpecNames == InitNames /\ [][NextNames]_vars

\* the tool resolver on one pipeline and one index
InitResolve == NmIdle /\ RsInit /\ ExIdle /\ UiIdle /\ BpIdle
NextResolve == Resolve
SpecResolve == InitResolve /\ [][NextResolve]_vars

\* the executor on one pipeline
InitExec == NmIdle /\ RsIdle /\ ExInit /\ UiIdle /\ BpIdle
NextExec == ExNext
SpecExec == InitExec /\ [][NextExec]_vars

\* the builder's canvas from its empty start: drops, drags and removals
InitDrag == NmIdle /\ RsIdle /\ ExIdle /\ UiIdle /\ BpIdle
NextDrag == DdNext
SpecDrag == InitDrag /\ [][NextDrag]_vars

\* the builder with configuration edits during a main-pipeline call
InitEdit == NmIdle /\ RsIdle /\ ExIdle /\ EdInit /\ BpIdle
NextEdit == EdNext
SpecEdit == InitEdit /\ [][NextEdit]_vars

\* the builder with the handler of components/builder/PipelineBuilder.tsx
InitLegacy == NmIdle /\ RsIdle /\ ExIdle /\ UiInit /\ BpIdle
NextLegacy == LegacyNext
SpecLegacy == InitLegacy /\ [][NextLegacy]_vars

\* buildSystemPrompt on one input
InitPrompt == NmIdle /\ RsIdle /\ ExIdle /\ UiIdle /\ BpInit
NextPrompt == BuildPrompt
SpecPrompt == InitPrompt /\ [][NextPrompt]_vars

----------------------------------------------------------------------------
(* Properties of the name functions (SpecNames)                            *)

NmSanitizedTwice == nmPc \in {"resanitized", "generated", "parsed", "emitted"}
NmParsed == nmPc \in {"parsed", "emitted"} /\ nmKind \in OutputNodeTypes
NmBase == baseToolName(NodeTypeToOutputType(nmKind))

\* C6: sanitizeCustomName is idempotent: sanitizing the name it returned
\* returns that name again, for every input, over-long inputs included.
C6_SanitizeIdempotent == NmSanitizedTwice => nmResanitized = nmSanitized

\* C7 as claimed: parsing the generated tool name gives back the base's
\* output type and the custom name as it was given.
C7_RoundTripAsGiven ==
  NmParsed =>
    nmParsed = [outputType |-> NodeTypeToOutputType(nmKind),
                customName |-> nmCustom]

\* C7 amended: parsing the generated tool name gives back the base's output
\* type and the sanitized custom name whenever the generated name fits the
\* length limit, and no custom name when none was given.
C7_RoundTripSanitized ==
  NmParsed =>
    /\ nmCustom = <<>> =>
         nmParsed = [outputType |-> NodeTypeToOutputType(nmKind),
                     customName |-> <<>>]
    /\ (nmCustom # <<>>
          /\ Len(NmBase) + 1 + Len(nmSanitized) <= MaxToolNameLen) =>
         nmParsed = [outputType |-> NodeTypeToOutputType(nmKind),
                     customName |-> nmSanitized]

\* a custom name with a character outside the pattern has been generated
\* and parsed back as its sanitized form
C7_Witness ==
  /\ NmParsed
  /\ \E i \in 1..Len(nmCustom) : nmCustom[i] \notin ValidChars
  /\ Len(nmCustom) = MaxNameLen
  /\ nmParsed.customName = nmSanitized
  /\ nmParsed.customName # nmCustom
  /\ nmParsed.customName # StrCustom

\* C8: every tool name getToolForNode and getGenieTool emit matches
\* ^[A-Za-z0-9_-]{1,128}$, whatever name the node's configuration holds.
C8_EmittedNamesValid == nmPc = "emitted" => MatchesToolNamePattern(nmEmitted)

\* a genie whose name is longer than the limit has been given its tool
C8_Witness ==
  /\ nmPc = "emitted"
  /\ nmKind = "genie"
  /\ Len(nmCustom) > MaxToolNameLen
  /\ Len(nmEmitted) = MaxToolNameLen

----------------------------------------------------------------------------
(* Properties of the tool resolver (SpecResolve)                           *)

\* the positions (from 1) of the nodes at indices below rsIndex and above the
\* nearest inference node below rsIndex
RsSegment ==
  {p \in 1..Len(rsNodes) :
     /\ p - 1 < rsIndex
     /\ \A q \in p..Len(rsNodes) :
          q - 1 < rsIndex => rsNodes[q].type # "inference"}

RsToolsOf(p) == {getToolForNode(rsNodes[p]), getGenieTool(rsNodes[p])} \ {<<>>}

\* C2: getToolsFromPrecedingNodes(nodes, i) returns tools and owners only
\* from nodes below index i and above the nearest inference node below i.
C2_ToolsFromSegmentOnly ==
  /\ \A t \in 1..Len(rsResult.tools) :
       \E p \in RsSegment : rsResult.tools[t] \in RsToolsOf(p)
  /\ \A name \in DOMAIN rsResult.nodeIdByToolName :
       \E p \in RsSegment :
         /\ rsResult.nodeIdByToolName[name] = rsNodes[p].id
         /\ name \in RsToolsOf(p)
  /\ Len(rsResult.tools) <= 2 * Cardinality(RsSegment)

\* tools were returned although a named output node lies beyond the nearest
\* preceding inference node
C2_Witness ==
  /\ rsResult.tools # <<>>
  /\ \E q \in 1..Len(rsNodes) :
       /\ q - 1 < rsIndex
       /\ rsNodes[q].type = "inference"
       /\ \E p \in 1..(q - 1) :
            /\ rsNodes[p].type = "color_display"
            /\ rsNodes[p].config.name = StrMood
  /\ \A t \in 1..Len(rsResult.tools) :
       rsResult.tools[t] # getToolForNode([type |-> "color_display",
                                           config |-> [name |-> StrMood]])

----------------------------------------------------------------------------
(* Properties of the executor (SpecExec)                                   *)

\* msgs holds the last user message of ctxMessages and nothing else, or
\* nothing when ctxMessages holds no user message
IsLatestUserOnly(msgs, ctxMessages) ==
  \/ /\ \A i \in 1..Len(ctxMessages) : ctxMessages[i].role # "user"
     /\ msgs = <<>>
  \/ \E i \in 1..Len(ctxMessages) :
       /\ ctxMessages[i].role = "user"
       /\ \A j \in (i + 1)..Len(ctxMessages) : ctxMessages[j].role # "user"
       /\ msgs = <<ctxMessages[i]>>

\* the step processInference takes at a node with contextMode "fresh"
ExFreshInferenceStep ==
  /\ ExAtNode({"inference"})
  /\ ExNode.config.contextMode = "fresh"
  /\ (exPc' # exPc \/ exStatus' # exStatus)

\* C9 as claimed: with contextMode "fresh" the messages handed to callLLM
\* are the latest user message of the context and nothing else, or empty.
C9_FreshIsLatestUserOnly ==
  [][ExFreshInferenceStep =>
       IsLatestUserOnly(request'.messages, context.messages)]_vars

\* C9 amended: with contextMode "fresh" the messages handed to callLLM are the
\* latest user message of the context (or none), preceded by a system message
\* holding config.systemPrompt when the node sets one; the messages of the
\* API request are the latest user message alone (or none).
C9_FreshIsLatestUserAfterOverride ==
  [][ExFreshInferenceStep =>
       /\ request'.sent
       /\ ExNode.config.systemPrompt = <<>> =>
            IsLatestUserOnly(request'.messages, context.messages)
       /\ ExNode.config.systemPrompt # <<>> =>
            /\ request'.messages # <<>>
            /\ Head(request'.messages) =
                 Msg("system", ExNode.config.systemPrompt)
            /\ IsLatestUserOnly(Tail(request'.messages), context.messages)
       /\ Len(request'.apiMessages) <= 1
       /\ IsLatestUserOnly(
            [i \in 1..Len(request'.apiMessages) |->
               Msg(request'.apiMessages[i].role,
                   request'.apiMessages[i].content)],
            context.messages)]_vars

\* a fresh inference node with a system prompt of its own has just run on a
\* context of two user messages
C9_Witness ==
  /\ exPc = Len(exNodes)
  /\ exPc >= 1
  /\ exNodes[exPc].type = "inference"
  /\ exNodes[exPc].config.contextMode = "fresh"
  /\ exNodes[exPc].config.systemPrompt # <<>>
  /\ exStatus = "running"
  /\ Len(request.messages) = 2
  /\ request.messages[1].role = "system"
  /\ request.messages[2] = Msg("user", <<"u2">>)
  /\ Len(request.apiMessages) = 1
  /\ Cardinality(IndicesWithRole(context.messages, "user")) = 2
  /\ context.messages[1] = Msg("user", <<"u1">>)

\* the steps of executePipeline at a system_prompt node and at an inference
\* node whose call answered
ExSystemPromptStep == ExAtNode({"system_prompt"}) /\ exPc' = exPc + 1
ExInferenceStep == ExAtNode({"inference"}) /\ exPc' = exPc + 1

ExNotSystem(m) == m.role # "system"

\* C11: however far executePipeline has got through whatever node sequence,
\* context.messages holds at most one system message; a system_prompt node
\* puts its prompt first and drops the system message there was.
C11_OneSystemMessage ==
  /\ [](Cardinality(IndicesWithRole(context.messages, "system")) <= 1)
  /\ [][ExSystemPromptStep =>
          /\ Head(context'.messages) = Msg("system", ExNode.config.prompt)
          /\ Tail(context'.messages) = SelectSeq(context.messages, ExNotSystem)
       ]_vars

\* two system_prompt nodes with different prompts and a user input between
\* them have been processed: the second prompt stands alone
C11_Witness ==
  /\ exPc = 3
  /\ exNodes[1].type = "system_prompt"
  /\ exNodes[2].type = "user_input"
  /\ exNodes[3].type = "system_prompt"
  /\ exNodes[1].config.prompt # exNodes[3].config.prompt
  /\ context.messages =
       <<Msg("system", exNodes[3].config.prompt), Msg("user", exInputs[2])>>

\* C16 as claimed, for executePipeline: a failing model call never makes
\* executePipeline end in a rejected promise.
C16_NothingEscapes == exStatus # "rejected"

\* C18: an inference step whose call answered leaves every message of the
\* context in place and adds one assistant message at the end, whatever the
\* context mode.
C18_OneAssistantAppended ==
  [][ExInferenceStep =>
       /\ Len(context'.messages) = Len(context.messages) + 1
       /\ SubSeq(context'.messages, 1, Len(context.messages)) = context.messages
       /\ context'.messages[Len(context'.messages)].role = "assistant"
    ]_vars

\* a "fresh" inference node has answered after a system prompt and a user
\* input: one message was sent, the context holds all three
C18_Witness ==
  /\ exPc = 3
  /\ exNodes[1].type = "system_prompt"
  /\ exNodes[2].type = "user_input"
  /\ exNodes[3].type = "inference"
  /\ exNodes[3].config.contextMode = "fresh"
  /\ Len(request.messages) = 1
  /\ Len(context.messages) = 3
  /\ context.messages[1].role = "system"
  /\ context.messages[2].role = "user"
  /\ context.messages[3].role = "assistant"

\* the tool_use blocks of a reply whose names parse, as results, in order
ExParsedCalls(reply) ==
  LET Parses(block) ==
        block.type = "tool_use" /\ parseToolName(block.name) # NullParse
      kept == SelectSeq(reply, Parses)
  IN [i \in 1..Len(kept) |->
        [type |-> parseToolName(kept[i].name).outputType,
         toolName |-> kept[i].name, data |-> kept[i].input]]

\* C19: after an inference step whose call answered, context.latestOutputs is
\* the results parsed from that reply and nothing else.
C19_LatestOutputsReplaced ==
  [][ExInferenceStep => context'.latestOutputs = ExParsedCalls(exResponse')
    ]_vars

\* a second inference step whose reply held no tool call has emptied the
\* batch the first step's reply had filled
C19_Witness ==
  /\ exPc = 2
  /\ exNodes[1].type = "inference"
  /\ exNodes[2].type = "inference"
  /\ context.messages[1].toolCalls # <<>>
  /\ \A i \in 1..Len(exResponse) : exResponse[i].type # "tool_use"
  /\ context.latestOutputs = <<>>

----------------------------------------------------------------------------
(* Properties of the builder (Spec, SpecLive)                              *)

\* the builder with its timers run: a callback given to setTimeout is run
Fairness == WF_vars(\E t \in 1..Len(timers) : TimerFires(t))
SpecLive == Spec /\ Fairness

SelfCallsInFlight(id) ==
  {k \in 1..Len(calls) : calls[k].kind \in {"self", "save"} /\ calls[k].nodeId = id}

\* C1: for every node id at most one selfInference or saveBackstory call is
\* in flight: a trigger while the node's call is running makes no call.
C1_OneSelfInferenceInFlight ==
  \A id \in NodeIds(nodes) : Cardinality(SelfCallsInFlight(id)) <= 1

\* a run of the mood scenario has just answered with text and the mood call
C4_Scenario ==
  /\ lastEvent.kind = "runOk"
  /\ lastEvent.nodeId = "i1"
  /\ lastEvent.call.fullNodes = fullNodes(MoodPipeline)
  /\ ~IsBlank(lastEvent.call.userMessage)
  /\ lastEvent.result = [response |-> "r1", toolCalls |-> <<MoodColorCall>>]

C5_FailureChangesNothing ==
  [][(lastEvent' # lastEvent /\ lastEvent'.kind \in FailureKinds) =>
       UNCHANGED <<nodes, outputs, genieConversations,
                   genieBackstoryUpdates>>]_vars

\* a main-pipeline call has failed with outputs, a conversation and a
\* notification flag in store
C5_Witness ==
  /\ lastEvent.kind \in FailureKinds
  /\ lastEvent.call.kind = "run"
  /\ outputs # EmptyMap
  /\ genieConversations # EmptyMap
  /\ genieBackstoryUpdates # EmptyMap

\* C10: a pixel-art call whose grid rows differ in length is rejected, so no
\* stored pixel-art output has rows of different lengths.
C10_UnequalRowsRejected ==
  \A id \in DOMAIN outputs :
    "grid" \in DOMAIN outputs[id] =>
      \A r \in 1..Len(outputs[id].grid) :
        Len(outputs[id].grid[r]) = Len(outputs[id].grid[1])

\* the update the last answered main-pipeline call carried for the genie at
\* position i of its preceding nodes
C3_UpdateFor(i) ==
  parseBlockOutput("genie", lastEvent.result, lastEvent.call.precedingNodes[i].id)

\* the preceding genies with autoRespondOnUpdate set for which the call that
\* has just answered carried a new backstory and asked for a response
C3_UpdatedGenies ==
  IF lastEvent.kind # "runOk" THEN {}
  ELSE {i \in 1..Len(lastEvent.call.precedingNodes) :
          /\ lastEvent.call.precedingNodes[i].type = "genie"
          /\ lastEvent.call.precedingNodes[i].config.autoRespondOnUpdate
          /\ HasBackstory(C3_UpdateFor(i))
          /\ C3_UpdateFor(i).shouldAutoRespond}

\* (a) and (b): the backstory of the node, if it is still in the pipeline, is
\* the new text, and its notification flag is set
C3_Persisted ==
  \A i \in C3_UpdatedGenies :
    LET id == lastEvent.call.precedingNodes[i].id
    IN /\ id \in NodeIds(nodes) =>
            FindNode(nodes, id).config.backstory = C3_UpdateFor(i).backstory
       /\ id \in DOMAIN genieBackstoryUpdates
       /\ genieBackstoryUpdates[id]

\* the follow-up call has settled, with an answer or with a failure
C3_FollowUpSettled ==
  /\ lastEvent.call.viaTimer
  /\ lastEvent.kind \in {"selfOk"} \cup FailureKinds

\* the node's conversation is the one the follow-up call started from and the
\* one turn of that call
C3_OneTurnAppended ==
  /\ lastEvent.nodeId \in DOMAIN genieConversations
  /\ genieConversations[lastEvent.nodeId] =
       lastEvent.call.conversation
         \o <<Msg("user", BackstoryUpdated),
              Msg("assistant", lastEvent.result.response)>>

C3_TimerPending ==
  \A i \in C3_UpdatedGenies :
    \E t \in 1..Len(timers) :
      timers[t].nodeId = lastEvent.call.precedingNodes[i].id

C3_FollowUpStarted ==
  /\ lastEvent.kind = "selfStart"
  /\ lastEvent.call.viaTimer
  /\ lastEvent.call.userMessage = BackstoryUpdated

----------------------------------------------------------------------------
(* Properties of the conversations and outputs the builder keeps (Spec)    *)

\* C12 as claimed: while its node stays in the pipeline, a conversation only
\* grows at its end: every step keeps the messages it held where they were.
C12_ConversationAppendOnly ==
  [][\A id \in DOMAIN genieConversations \cap NodeIds(nodes) \cap NodeIds(nodes') :
       /\ id \in DOMAIN genieConversations'
       /\ Len(genieConversations'[id]) >= Len(genieConversations[id])
       /\ SubSeq(genieConversations'[id], 1, Len(genieConversations[id]))
            = genieConversations[id]
    ]_vars

\* C13 as claimed: a node that has been removed has no conversation, in the
\* state after the removal and in every later one.
C13_RemovedStaysAbsent == DOMAIN genieConversations \subseteq NodeIds(nodes)

\* C15 as claimed: when the follow-up timer of processBackstoryUpdates fires
\* for a node no longer in the pipeline, no call is started and nothing is
\* written.
C15_RemovedNodeTimerNoOp ==
  [][(Len(timers') < Len(timers) /\ lastEvent'.nodeId \notin NodeIds(nodes)) =>
       /\ calls' = calls
       /\ UNCHANGED <<nodes, outputs, userInputs, genieConversations,
                      genieBackstoryUpdates, loadingNodeId>>
    ]_vars

\* of the hex values the replies tried hold, those matching ^#[0-9a-fA-F]{6}$
MatchesHexPattern(hex) == hex \in {"#3498DB"}

\* C17 as claimed: the output stored for a colour node always has a hex that
\* matches the pattern.
C17_StoredHexValid ==
  \A id \in DOMAIN outputs :
    "hex" \in DOMAIN outputs[id] => MatchesHexPattern(outputs[id].hex)

\* the node ids the handler of a call that answered writes outputs or
\* conversations for: its own, and the owners of the tools the reply called
C20_WrittenBy(call, result) ==
  {call.nodeId} \cup
    {call.nodeIdByToolName[result.toolCalls[i].toolName] :
       i \in {j \in 1..Len(result.toolCalls) :
                result.toolCalls[j].toolName \in DOMAIN call.nodeIdByToolName}}

\* a call has answered and its handler has run
C20_Completion ==
  /\ Len(calls') < Len(calls)
  /\ lastEvent'.kind \in {"selfOk", "saveOk", "runOk"}

\* C20: when a call answers, its handler writes the result for its own node
\* and leaves the output and the conversation of every other node as they
\* were, whichever other calls are in flight and in whichever order they
\* answer.
C20_NoClobbering ==
  [][C20_Completion =>
       LET done == lastEvent'.call
           result == lastEvent'.result
           others == (DOMAIN outputs \cup DOMAIN genieConversations)
                       \ C20_WrittenBy(done, result)
       IN /\ \A id \in others \cap DOMAIN outputs :
               id \in DOMAIN outputs' /\ outputs'[id] = outputs[id]
          /\ \A id \in others \cap DOMAIN genieConversations :
               /\ id \in DOMAIN genieConversations'
               /\ genieConversations'[id] = genieConversations[id]
          /\ done.kind \in {"self", "save"} =>
               /\ done.nodeId \in DOMAIN genieConversations'
               /\ LET messages == genieConversations'[done.nodeId]
                  IN /\ Len(messages) >= 2
                     /\ messages[Len(messages) - 1] = Msg("user", done.userMessage)
                     /\ messages[Len(messages)] = Msg("assistant", result.response)
          /\ (done.kind = "run" /\ result.response # "") =>
               /\ done.nodeId \in DOMAIN outputs'
               /\ outputs'[done.nodeId] = [content |-> result.response]
    ]_vars

\* calls for g1 and g2 were in flight together, g1's started first; g2's has
\* answered first and both conversations stand
C20_Witness ==
  /\ lastEvent.kind = "selfOk"
  /\ lastEvent.nodeId = "g2"
  /\ Len(calls) = 1
  /\ calls[1].nodeId = "g1"
  /\ "g1" \in DOMAIN genieConversations
  /\ "g2" \in DOMAIN genieConversations
  /\ genieConversations["g1"][2] = Msg("assistant", "g1")
  /\ genieConversations["g2"] =
       <<Msg("user", "hello"), Msg("assistant", lastEvent.result.response)>>

----------------------------------------------------------------------------
(* Properties of the canvas (SpecDrag)                                     *)

----------------------------------------------------------------------------
(* Further properties of the resolver (SpecResolve)                        *)

\* the positions of the segment whose node builds this tool name
RsOwners(name) == {p \in RsSegment : name \in RsToolsOf(p)}

\* C23: a tool name built by several nodes of the segment is in tools once
\* for each of them, and nodeIdByToolName gives it to the node the backward
\* scan reaches last, the one lowest in the pipeline.
C23_CollisionKeepsBothTools ==
  \A t \in 1..Len(rsResult.tools) :
    LET name == rsResult.tools[t]
    IN /\ Cardinality({u \in 1..Len(rsResult.tools) : rsResult.tools[u] = name})
            = Cardinality(RsOwners(name))
       /\ name \in DOMAIN rsResult.nodeIdByToolName
       /\ rsResult.nodeIdByToolName[name] = rsNodes[MinOf(RsOwners(name))].id

\* two nodes of the segment build the same name: it was returned twice and
\* belongs to the lower node
C23_Witness ==
  \E t, u \in 1..Len(rsResult.tools) :
    /\ t < u
    /\ rsResult.tools[t] = rsResult.tools[u]
    /\ Cardinality(RsOwners(rsResult.tools[t])) = 2
    /\ rsResult.nodeIdByToolName[rsResult.tools[t]]
         = rsNodes[MinOf(RsOwners(rsResult.tools[t]))].id
    /\ rsResult.nodeIdByToolName[rsResult.tools[t]]
         # rsNodes[MaxOf(RsOwners(rsResult.tools[t]))].id

----------------------------------------------------------------------------
(* Further properties of the executor (SpecExec)                           *)

\* C28 as claimed: the tools executePipeline sends for the inference node at
\* index i are tools of nodes at indices below i.
C28_ToolsFromPrecedingNodes ==
  [][(ExAtNode({"inference"}) /\ request'.sent /\ request' # request) =>
       \A t \in 1..Len(request'.tools) :
         \E j \in 1..exPc : getToolForNode(exNodes[j]) = request'.tools[t]
    ]_vars

----------------------------------------------------------------------------
(* Further properties of the builder (Spec, SpecSettle)                    *)

\* a call in flight settles: the promise of runInference resolves or rejects
\* and the handler awaiting it runs on
Settles ==
  \E k \in 1..Len(calls) :
    \/ \E r \in GenieReplies : SelfInferenceSucceeds(k, r)
    \/ \E how \in FailureKinds : SelfInferenceFails(k, how)
    \/ \E r \in GenieReplies : SaveBackstorySucceeds(k, r)
    \/ \E how \in FailureKinds : SaveBackstoryFails(k, how)
    \/ \E result \in RunResults : RunInferenceSucceeds(k, result)
    \/ \E how \in FailureKinds : RunInferenceFails(k, how)

\* the builder with every model call ending
SpecSettle == Spec /\ WF_vars(Settles)

\* C21: a handler that starts a call sets the loading marker to its node;
\* when the call ends, answered, with an error or thrown, the marker is
\* cleared; and a marker that is set is cleared in the end.
C21_LoadingCleared ==
  /\ [][Len(calls') > Len(calls) =>
          loadingNodeId' = calls'[Len(calls')].nodeId]_vars
  /\ [][Len(calls') < Len(calls) => loadingNodeId' = "null"]_vars
  /\ (loadingNodeId # "null") ~> (loadingNodeId = "null")

\* a selfInference whose call threw has ended with the marker cleared
C21_Witness ==
  /\ lastEvent.kind = "throw"
  /\ lastEvent.call.kind = "self"
  /\ calls = <<>>
  /\ loadingNodeId = "null"

\* C26 as claimed: a saveBackstory whose call answers appends the seed turn
\* to the conversation the node has, as a selfInference with the seed
\* message does.
C26_SaveAppendsSeedTurn ==
  [][(Len(calls') < Len(calls) /\ lastEvent'.kind = "saveOk") =>
       genieConversations'[lastEvent'.nodeId] =
         MapGet(genieConversations, lastEvent'.nodeId, <<>>)
           \o <<Msg("user", IntroduceYourself),
                Msg("assistant", lastEvent'.result.response)>>
    ]_vars

\* C29 as claimed: the keys of outputs, genieConversations and
\* genieBackstoryUpdates are ids of nodes in the pipeline.
C29_MapKeysAreNodes ==
  (DOMAIN outputs \cup DOMAIN genieConversations
     \cup DOMAIN genieBackstoryUpdates) \subseteq NodeIds(nodes)

\* C30 as claimed: while a call is in flight the loading marker is set.
C30_LoadingWhileInFlight == calls # <<>> => loadingNodeId # "null"

----------------------------------------------------------------------------
(* Properties of the builder with edits and two colour nodes (SpecEdit)    *)

\* a main-pipeline call has just been answered
EdAnswered == Len(calls') < Len(calls) /\ lastEvent'.kind = "runOk"

\* C22 as claimed: after a reply is routed, the output of the colour node
\* that owns a tool call's name is built from that call's input, also when
\* the reply holds a call for another colour node.
C22_EachNodeItsOwnCall ==
  [][EdAnswered =>
       LET call == lastEvent'.call
           result == lastEvent'.result
       IN \A t \in 1..Len(result.toolCalls) :
            LET toolCall == result.toolCalls[t]
                owner == call.nodeIdByToolName[toolCall.toolName]
                ownerNode == FindNode(call.fullNodes, owner)
            IN (/\ toolCall.toolName \in DOMAIN call.nodeIdByToolName
                /\ ownerNode # Undefined
                /\ ownerNode.type = "color_display")
                 => /\ owner \in DOMAIN outputs'
                    /\ outputs'[owner].hex = toolCall.input.hex
    ]_vars

\* C24 as claimed: applying the updates of a reply changes nothing of a
\* node but its backstory: every other field keeps the value it has when
\* the update is applied.
C24_UpdateChangesBackstoryOnly ==
  [][EdAnswered =>
       /\ Len(nodes') = Len(nodes)
       /\ \A i \in 1..Len(nodes) :
            nodes'[i] = [nodes[i] EXCEPT
                           !.config.backstory = nodes'[i].config.backstory]
    ]_vars

----------------------------------------------------------------------------
(* Properties of the handler of PipelineBuilder.tsx (SpecLegacy)           *)

\* the positions of the full list that are in the inference segment of the
\* node: before it, with no inference node in between
SegmentOf(full, nodeId) ==
  LET p == FindIndex(full, nodeId) + 1
  IN {q \in 1..(p - 1) : \A r \in q..(p - 1) : full[r].type # "inference"}

ToolsOfNode(node) == {getToolForNode(node), getGenieTool(node)} \ {<<>>}

\* C27 as claimed: the tools and the owners a run of inference at node N
\* holds are those of N's segment in the full pipeline: each node of the
\* segment that builds a tool contributes it, and no other node does.
C27_ToolsForOwnPosition ==
  \A k \in 1..Len(calls) :
    calls[k].kind \in {"run", "legacy"} =>
      LET call == calls[k]
          full == call.fullNodes
          segment == SegmentOf(full, call.nodeId)
          expected == UNION {ToolsOfNode(full[q]) : q \in segment}
      IN /\ {call.tools[t] : t \in 1..Len(call.tools)} = expected
         /\ DOMAIN call.nodeIdByToolName = expected
         /\ \A name \in DOMAIN call.nodeIdByToolName :
              \E q \in segment :
                /\ full[q].id = call.nodeIdByToolName[name]
                /\ name \in ToolsOfNode(full[q])

----------------------------------------------------------------------------
(* Properties of buildSystemPrompt (SpecPrompt)                            *)

BpParts == {bpResult.prompt[i] : i \in 1..Len(bpResult.prompt)}

\* C25 as claimed: with conversation inclusion disabled the prompt holds
\* the metadata of every preceding node that has one, and holds no
\* conversation block.
C25_MetadataWithoutConversations ==
  (bpResult.done /\ ~bpInput.options.includeGenieConversations) =>
    /\ \A i \in 1..Len(bpInput.precedingNodes) :
         LET node == bpInput.precedingNodes[i]
         IN (node.type # "genie" /\ generateBlockMetadata(node) # <<>>)
              => Part("metadata", node.id) \in BpParts
    /\ \A part \in BpParts : part.kind # "genieContext"

============================================================================
